---- MODULE Spec2Model ----
(***************************************************************************)
(* State-machine model of the OsintBox backend core:                       *)
(*   dns_enumerator.py  (normalizeDomainForDNS, get_dns_records,           *)
(*                       discover_subdomains_crtsh, run_dns_enum)          *)
(*   port_scanner.py    (is_valid_ipv4_address, resolve_domain_to_ip,      *)
(*                       local_port_check_python, run_port_scan)           *)
(*                                                                         *)
(* Python strings are modelled as sequences of one-character strings, so   *)
(* that lower(), strip(), startswith() and the regular expressions are     *)
(* computed character by character.  Python's None is the value None.      *)
(***************************************************************************)
EXTENDS Integers, Sequences, FiniteSets, TLC

\* ------------------------------------------------------------------------
\* Bounds of the model
\* ------------------------------------------------------------------------

\* longest Answer list the DoH upstream returns for an A query
MaxA == 2

\* longest string handed to resolve_domain_to_ip by the direct-call harness
MaxLen == 7

\* longest string over NormAlphabet handed to normalizeDomainForDNS on its own
MaxNormLen == 4

\* how many times check_scan_status sleeps and polls again
MaxPolls == 2

\* ------------------------------------------------------------------------
\* Strings
\* ------------------------------------------------------------------------

\* Python None: a one-element sequence that is no string of characters
None == <<"None">>

\* characters outside ASCII are written as the name of their code point
UUml == "U+00DC"
uuml == "U+00FC"
IdeographicStop == "U+3002"

\* the code points of the characters outside ASCII
NonAscii == (UUml :> 220) @@ (uuml :> 252) @@ (IdeographicStop :> 12290)

UpperCase == <<"A", "B", "C", "D", "E", "F", "G", "H", "I", "J", "K", "L", "M",
               "N", "O", "P", "Q", "R", "S", "T", "U", "V", "W", "X", "Y", "Z", UUml>>

LowerCase == <<"a", "b", "c", "d", "e", "f", "g", "h", "i", "j", "k", "l", "m",
               "n", "o", "p", "q", "r", "s", "t", "u", "v", "w", "x", "y", "z", uuml>>

Digits == {"0", "1", "2", "3", "4", "5", "6", "7", "8", "9"}

\* characters str.strip() removes and \s matches
Whitespace == {" ", "\n", "\t"}

\* str.lower() on one character
LowerChar(c) ==
    IF \E i \in 1..Len(UpperCase) : UpperCase[i] = c
    THEN LowerCase[CHOOSE i \in 1..Len(UpperCase) : UpperCase[i] = c]
    ELSE c

\* str.lower()
Lower(s) == [i \in 1..Len(s) |-> LowerChar(s[i])]

\* s.strip(chars): drop the leading and trailing characters that are in chars
StripChars(s, chars) ==
    IF \A i \in 1..Len(s) : s[i] \in chars
    THEN <<>>
    ELSE LET first == CHOOSE i \in 1..Len(s) :
                          s[i] \notin chars /\ \A j \in 1..(i - 1) : s[j] \in chars
             last  == CHOOSE i \in 1..Len(s) :
                          s[i] \notin chars /\ \A j \in (i + 1)..Len(s) : s[j] \in chars
         IN  SubSeq(s, first, last)

\* str.strip()
Strip(s) == StripChars(s, Whitespace)

\* s.startswith(p)
StartsWith(s, p) == Len(p) <= Len(s) /\ SubSeq(s, 1, Len(p)) = p

\* s.endswith(p)
EndsWith(s, p) == Len(p) <= Len(s) /\ SubSeq(s, Len(s) - Len(p) + 1, Len(s)) = p

\* p in s
Contains(s, p) == \E i \in 1..(Len(s) - Len(p) + 1) : SubSeq(s, i, i + Len(p) - 1) = p

\* s.split(sep) for a one-character separator: the list of fields
RECURSIVE Split(_, _)
Split(s, sep) ==
    IF \A i \in 1..Len(s) : s[i] # sep
    THEN <<s>>
    ELSE LET k == CHOOSE i \in 1..Len(s) : s[i] = sep /\ \A j \in 1..(i - 1) : s[j] # sep
         IN  <<SubSeq(s, 1, k - 1)>> \o Split(SubSeq(s, k + 1, Len(s)), sep)

\* re.split on a character class: the list of fields
RECURSIVE SplitOn(_, _)
SplitOn(s, seps) ==
    IF \A i \in 1..Len(s) : s[i] \notin seps
    THEN <<s>>
    ELSE LET k == CHOOSE i \in 1..Len(s) : s[i] \in seps /\ \A j \in 1..(i - 1) : s[j] \notin seps
         IN  <<SubSeq(s, 1, k - 1)>> \o SplitOn(SubSeq(s, k + 1, Len(s)), seps)

\* sep.join(parts) for a one-character separator
RECURSIVE Join(_, _)
Join(parts, sep) ==
    IF Len(parts) = 0 THEN <<>>
    ELSE IF Len(parts) = 1 THEN parts[1]
    ELSE parts[1] \o <<sep>> \o Join(Tail(parts), sep)

\* s.replace(p, "") for a two-character p: every occurrence, left to right
RECURSIVE RemoveAll(_, _)
RemoveAll(s, p) ==
    IF Len(s) < Len(p) THEN s
    ELSE IF SubSeq(s, 1, Len(p)) = p THEN RemoveAll(SubSeq(s, Len(p) + 1, Len(s)), p)
    ELSE <<s[1]>> \o RemoveAll(Tail(s), p)

\* all sequences over S of length at most n
BoundedSeq(S, n) == UNION {[1..k -> S] : k \in 0..n}

\* the elements of a sequence
Range(f) == {f[i] : i \in DOMAIN f}

\* ------------------------------------------------------------------------
\* dns_enumerator.py: constants
\* ------------------------------------------------------------------------

COMMON_SUBDOMAINS ==
    << <<"w", "w", "w">>,
       <<"m", "a", "i", "l">>,
       <<"f", "t", "p">>,
       <<"b", "l", "o", "g">>,
       <<"d", "e", "v">>,
       <<"t", "e", "s", "t">>,
       <<"a", "d", "m", "i", "n">>,
       <<"a", "p", "i">>,
       <<"w", "e", "b", "m", "a", "i", "l">>,
       <<"s", "e", "c", "u", "r", "e">>,
       <<"v", "p", "n">>,
       <<"m">>,
       <<"p", "o", "r", "t", "a", "l">>,
       <<"s", "h", "o", "p">>,
       <<"s", "t", "o", "r", "e">>,
       <<"c", "p", "a", "n", "e", "l">>,
       <<"a", "u", "t", "o", "d", "i", "s", "c", "o", "v", "e", "r">>,
       <<"d", "o", "c", "s">>,
       <<"s", "u", "p", "p", "o", "r", "t">>,
       <<"h", "e", "l", "p">>,
       <<"a", "p", "p">>,
       <<"d", "a", "s", "h", "b", "o", "a", "r", "d">>,
       <<"s", "t", "a", "t", "u", "s">>,
       <<"f", "o", "r", "u", "m">>,
       <<"n", "e", "w", "s">> >>

\* the names bound at module level in dns_enumerator.py (imports, the
\* constant and the functions); a name outside this set raises NameError
\* when it is evaluated
ModuleGlobals ==
    {"re", "asyncio", "httpx", "socket", "json", "idna",
     "Dict", "List", "Any", "Optional", "COMMON_SUBDOMAINS",
     "normalizeDomainForDNS", "get_dns_records", "discover_subdomains_crtsh",
     "perform_reverse_dns_lookup", "run_dns_enum", "main"}

\* ------------------------------------------------------------------------
\* dns_enumerator.py: normalizeDomainForDNS
\* ------------------------------------------------------------------------

\* the code points of class PVALID among the characters of the model: the
\* lower-case letters, the digits and the hyphen
LabelChars == Range(LowerCase) \cup Digits \cup {"-"}

\* the characters idna.encode splits the domain at: the full stop and its
\* Unicode forms
UnicodeDots == {".", IdeographicStop}

\* a basic code point of Punycode
IsBasic(c) == c \notin DOMAIN NonAscii

\* the code point of a character; of a basic one only "below 128" is used
CodePoint(c) == IF IsBasic(c) THEN 0 ELSE NonAscii[c]

\* chr(): the character of a code point from 128 on; a code point without a
\* character in the model is written by its number and belongs to no class
\* (the names given to the model decode to its own characters only)
CharOf(cp) ==
    IF \E c \in DOMAIN NonAscii : NonAscii[c] = cp
    THEN CHOOSE c \in DOMAIN NonAscii : NonAscii[c] = cp
    ELSE ToString(cp)

\* Punycode digit values: a-z are 0..25, 0-9 are 26..35
PunyDigits == SubSeq(LowerCase, 1, 26) \o <<"0", "1", "2", "3", "4", "5", "6", "7", "8", "9">>

PunyDigitValue(c) == CHOOSE d \in 0..35 : PunyDigits[d + 1] = c

\* punycode.T: the threshold of digit j under a bias
PunyT(j, bias) ==
    LET res == 36 * (j + 1) - bias
    IN  IF res < 1 THEN 1 ELSE IF res > 26 THEN 26 ELSE res

RECURSIVE PunyAdaptLoop(_, _)
PunyAdaptLoop(delta, divisions) ==
    IF delta > 455 THEN PunyAdaptLoop(delta \div 35, divisions + 36)
    ELSE divisions + ((36 * delta) \div (delta + 38))

\* punycode.adapt
PunyAdapt(delta, first, numchars) ==
    LET d0 == IF first THEN delta \div 700 ELSE delta \div 2
    IN  PunyAdaptLoop(d0 + (d0 \div numchars), 0)

\* punycode.generate_generalized_integer: the digits of one delta
RECURSIVE PunyGenerate(_, _, _)
PunyGenerate(N, j, bias) ==
    LET t == PunyT(j, bias)
    IN  IF N < t THEN <<PunyDigits[N + 1]>>
        ELSE <<PunyDigits[t + ((N - t) % (36 - t)) + 1]>>
             \o PunyGenerate((N - t) \div (36 - t), j + 1, bias)

\* one pass over the label for the code point n: a delta is written for each
\* occurrence of n (the inner loop of the encoder)
RECURSIVE PunyScan(_, _, _, _, _, _, _, _)
PunyScan(label, i, n, delta, bias, h, b, out) ==
    IF i > Len(label) THEN [delta |-> delta, bias |-> bias, h |-> h, out |-> out]
    ELSE LET c == CodePoint(label[i])
         IN  IF c < n THEN PunyScan(label, i + 1, n, delta + 1, bias, h, b, out)
             ELSE IF c = n
                  THEN PunyScan(label, i + 1, n, 0, PunyAdapt(delta, h = b, h + 1), h + 1, b,
                                out \o PunyGenerate(delta, 0, bias))
             ELSE PunyScan(label, i + 1, n, delta, bias, h, b, out)

\* the smallest code point of the label that is at least n
PunyMin(label, n) ==
    CHOOSE x \in {CodePoint(label[i]) : i \in 1..Len(label)} :
        /\ x >= n
        /\ \A i \in 1..Len(label) : CodePoint(label[i]) >= n => x <= CodePoint(label[i])

RECURSIVE PunyLoop(_, _, _, _, _, _, _)

\* the end of one round of the outer loop: r is what the pass for the code
\* point m left
PunyLoopNext(label, m, b, r) ==
    PunyLoop(label, m + 1, r.delta + 1, r.bias, r.h, b, r.out)

\* one round of the outer loop, for the code point m
PunyLoopRound(label, n, m, delta, bias, h, b, out) ==
    PunyLoopNext(label, m, b,
                 PunyScan(label, 1, m, delta + (m - n) * (h + 1), bias, h, b, out))

\* the outer loop of the encoder: the code points from 128 on, in rising order
PunyLoop(label, n, delta, bias, h, b, out) ==
    IF h >= Len(label) THEN out
    ELSE PunyLoopRound(label, n, PunyMin(label, n), delta, bias, h, b, out)

\* the encoder after the basic code points: a hyphen when there is one, then
\* the deltas of the others
PunyEncodeFrom(label, base) ==
    PunyLoop(label, 128, 0, 72, Len(base), Len(base),
             IF Len(base) > 0 THEN base \o <<"-">> ELSE base)

\* str.encode("punycode")
PunyEncode(label) ==
    PunyEncodeFrom(label, SelectSeq(label, IsBasic))

\* punycode.decode_generalized_number: position after the number and its
\* value, or value -1 when the digits end early or a character is no digit
RECURSIVE PunyNumber(_, _, _, _, _, _)
PunyNumber(extended, extpos, bias, result, w, j) ==
    IF extpos > Len(extended) THEN [pos |-> extpos, value |-> -1]
    ELSE IF extended[extpos] \notin Range(PunyDigits) THEN [pos |-> extpos, value |-> -1]
    ELSE LET digit == PunyDigitValue(extended[extpos])
             t == PunyT(j, bias)
         IN  IF digit < t THEN [pos |-> extpos + 1, value |-> result + digit * w]
             ELSE PunyNumber(extended, extpos + 1, bias, result + digit * w, w * (36 - t), j + 1)

RECURSIVE PunyInsert(_, _, _, _, _, _)

\* the character of code point char goes to position pos of base, and the
\* loop goes on after the number nr
PunyInsertChar(base, extended, extpos, nr, char, pos) ==
    IF char > 1114111 THEN None
    ELSE PunyInsert(SubSeq(base, 1, pos) \o <<CharOf(char)>> \o SubSeq(base, pos + 1, Len(base)),
                    extended, nr.pos, char, pos,
                    PunyAdapt(nr.value, extpos = 1, Len(base) + 1))

\* one round of the loop of insertion_sort, nr being the number decoded at
\* extpos
PunyInsertNumber(base, extended, extpos, char, pos, nr) ==
    IF nr.value < 0 THEN None
    ELSE PunyInsertChar(base, extended, extpos, nr,
                        char + ((pos + nr.value + 1) \div (Len(base) + 1)),
                        (pos + nr.value + 1) % (Len(base) + 1))

\* punycode.insertion_sort: None stands for UnicodeError
PunyInsert(base, extended, extpos, char, pos, bias) ==
    IF extpos > Len(extended) THEN base
    ELSE PunyInsertNumber(base, extended, extpos, char, pos,
                          PunyNumber(extended, extpos, bias, 0, 1, 0))

\* the position of the last hyphen of the text, 0 when it has none
PunyLastHyphen(text) ==
    IF \A i \in 1..Len(text) : text[i] # "-" THEN 0
    ELSE CHOOSE i \in 1..Len(text) :
            text[i] = "-" /\ \A k \in (i + 1)..Len(text) : text[k] # "-"

\* the decoder, pos being the position of the last hyphen
PunyDecodeAt(text, pos) ==
    PunyInsert(IF pos = 0 THEN <<>> ELSE SubSeq(text, 1, pos - 1),
               SubSeq(text, pos + 1, Len(text)), 1, 128, -1, 72)

\* bytes.decode("punycode"): the text before the last hyphen is the base,
\* the rest the deltas
PunyDecode(text) ==
    PunyDecodeAt(text, PunyLastHyphen(text))

\* idna.core.check_label: TRUE when the label passes (length, hyphens in
\* positions 3 and 4 or at an end, the class of every code point)
check_label(label) ==
    /\ Len(label) > 0
    /\ ~(Len(label) >= 4 /\ SubSeq(label, 3, 4) = <<"-", "-">>)
    /\ label[1] # "-"
    /\ label[Len(label)] # "-"
    /\ \A i \in 1..Len(label) : label[i] \in LabelChars

\* the decoded form of an A-label passes: it was decoded and check_label
\* accepts it
decoded_label_ok(decoded) ==
    decoded # None /\ check_label(decoded)

\* ulabel on the part of an A-label after "xn--"
punycode_part_ok(rest) ==
    /\ Len(rest) > 0
    /\ rest[Len(rest)] # "-"
    /\ decoded_label_ok(PunyDecode(rest))

\* ulabel on a lower-cased ASCII label
lowered_label_ok(l) ==
    IF StartsWith(l, <<"x", "n", "-", "-">>)
    THEN punycode_part_ok(SubSeq(l, 5, Len(l)))
    ELSE check_label(l)

\* idna.core.ulabel on an ASCII label, as alabel calls it: TRUE when it
\* returns; an "xn--" label is decoded and the decoded label checked
idna_label_ok(label) ==
    lowered_label_ok(Lower(label))

\* idna.core.valid_label_length, as alabel uses it: None for IDNAError
checked_label_length(label_bytes) ==
    IF label_bytes # None /\ Len(label_bytes) > 63 THEN None ELSE label_bytes

\* alabel without its shortcut for a label that is ASCII already: every label
\* is Punycode-encoded
alabel_encodes_every_label(label) ==
    IF check_label(label) THEN <<"x", "n", "-", "-">> \o PunyEncode(label) ELSE None

\* idna.core.alabel: the A-label of one label, None for IDNAError
alabel(label) ==
    checked_label_length(
        IF \A i \in 1..Len(label) : IsBasic(label[i])
        THEN IF idna_label_ok(label) THEN label ELSE None
        ELSE IF check_label(label)
             THEN <<"x", "n", "-", "-">> \o PunyEncode(label)
             ELSE None)

\* the end of idna.encode: the encoded labels joined by ".", None when the
\* name is too long
idna_joined(joined, trailing_dot) ==
    IF Len(joined) > (IF trailing_dot THEN 254 ELSE 253) THEN None ELSE joined

\* idna.encode after the labels are encoded: result holds None for a label
\* that raised
idna_result(result, trailing_dot) ==
    IF \E i \in 1..Len(result) : result[i] = None THEN None
    ELSE idna_joined(Join(IF trailing_dot THEN Append(result, <<>>) ELSE result, "."),
                     trailing_dot)

\* idna.encode on the labels: an empty last label is a trailing dot
idna_encode_labels(labels, trailing_dot) ==
    IF labels = <<<<>>>> THEN None
    ELSE idna_result([i \in 1..(Len(labels) - (IF trailing_dot THEN 1 ELSE 0)) |->
                         alabel(labels[i])],
                     trailing_dot)

\* the labels of a domain: split at the Unicode dots
idna_labels(labels) ==
    idna_encode_labels(labels, Len(labels) > 1 /\ labels[Len(labels)] = <<>>)

\* idna.encode(domain): None stands for IDNAError; the labels are encoded one
\* by one and joined by ".", a trailing dot is kept
idna_encode(domain) ==
    idna_labels(SplitOn(domain, UnicodeDots))

\* lines 38-40: the checks on the encoded, lower-cased name
checked_punycode_domain(punycode_domain) ==
    IF \/ punycode_domain = <<>>
       \/ Contains(punycode_domain, <<".", ".">>)
       \/ StartsWith(punycode_domain, <<"-">>)
       \/ EndsWith(punycode_domain, <<"-">>)
    THEN None
    ELSE punycode_domain

\* lines 35-44: what follows idna.encode, enc being its value or None
encoded_domain(enc) ==
    IF enc = None THEN None ELSE checked_punycode_domain(Lower(enc))

normalizeDomainForDNS(domain) ==
    IF Contains(domain, <<".", ".">>) THEN None
    ELSE encoded_domain(idna_encode(domain))

\* ------------------------------------------------------------------------
\* dns_enumerator.py: get_dns_records
\* ------------------------------------------------------------------------

query_types == <<"A", "AAAA", "MX", "NS", "TXT", "CNAME", "SOA">>

\* the records dict as created at the top of get_dns_records
EmptyRecords ==
    [A |-> <<>>, AAAA |-> <<>>, MX |-> <<>>, NS |-> <<>>, TXT |-> <<>>,
     CNAME |-> <<>>, SOA |-> None, PTR |-> <<>>]

\* the body of "for answer in data['Answer']" for one query type; an entry
\* without "data" (or, for CNAME, without "name") raises KeyError, which
\* the handler of the query catches: the entries before it stay recorded
RECURSIVE collect_answers(_, _, _)
collect_answers(recs, q_type, answer) ==
    IF Len(answer) = 0 THEN recs
    ELSE LET e == answer[1]
         IN  IF "data" \notin DOMAIN e THEN recs
             ELSE IF q_type = "SOA"
                  THEN collect_answers([recs EXCEPT !.SOA = e.data], q_type, Tail(answer))
             ELSE IF q_type = "CNAME"
                  THEN IF "name" \notin DOMAIN e THEN recs
                       ELSE collect_answers(
                              [recs EXCEPT !.CNAME = Append(@, [name |-> e.name, target |-> e.data])],
                              q_type, Tail(answer))
             ELSE collect_answers([recs EXCEPT ![q_type] = Append(@, e.data)],
                                  q_type, Tail(answer))

\* one pass of the loop over query_types: the try block and its handlers
dns_query_step(recs, q_type, resp) ==
    IF resp.kind # "ok" THEN recs
    ELSE IF resp.answer = <<>> THEN recs
    ELSE collect_answers(recs, q_type, resp.answer)

\* an Answer entry the loop body raises KeyError on
entry_raises(q_type, e) ==
    "data" \notin DOMAIN e \/ (q_type = "CNAME" /\ "name" \notin DOMAIN e)

\* the lookup of one type fails: one of the except clauses of lines 84-89
\* runs (request error, raise_for_status, response.json(), or the loop
\* body on an entry)
dns_query_raises(q_type, resp) ==
    \/ resp.kind \in {"request_error", "status_error", "json_error"}
    \/ /\ resp.kind = "ok"
       /\ \E i \in 1..Len(resp.answer) : entry_raises(q_type, resp.answer[i])

\* ------------------------------------------------------------------------
\* dns_enumerator.py: discover_subdomains_crtsh
\* ------------------------------------------------------------------------

\* the common_name branch for one certificate
crtsh_common_name(subdomains, cn, domain) ==
    IF EndsWith(cn, <<".">> \o domain) \/ cn = domain
    THEN IF StartsWith(cn, <<"*", ".">>) /\ cn # domain
         THEN subdomains \cup {RemoveAll(Lower(cn), <<"*", ".">>)}
         ELSE subdomains \cup {Lower(cn)}
    ELSE subdomains

\* the loop over the lines of name_value
RECURSIVE crtsh_names(_, _, _)
crtsh_names(subdomains, names, domain) ==
    IF Len(names) = 0 THEN subdomains
    ELSE LET name == Strip(names[1])
             next == IF StartsWith(name, <<"*", ".">>) /\ EndsWith(name, <<".">> \o domain)
                     THEN subdomains \cup {RemoveAll(Lower(name), <<"*", ".">>)}
                     ELSE IF EndsWith(name, <<".">> \o domain) \/ name = domain
                     THEN subdomains \cup {Lower(name)}
                     ELSE subdomains
         IN  crtsh_names(next, Tail(names), domain)

\* "for cert in certs": a certificate whose common_name or name_value is no
\* string raises inside the loop; the handler then returns what was
\* collected before it
RECURSIVE crtsh_certs(_, _, _)
crtsh_certs(subdomains, certs, domain) ==
    IF Len(certs) = 0 THEN subdomains
    ELSE LET cert == certs[1]
         IN  IF "common_name" \in DOMAIN cert /\ cert.common_name = None
             THEN subdomains
             ELSE LET s1 == IF "common_name" \in DOMAIN cert
                            THEN crtsh_common_name(subdomains, cert.common_name, domain)
                            ELSE subdomains
                  IN  IF "name_value" \in DOMAIN cert /\ cert.name_value = None
                      THEN s1
                      ELSE LET s2 == IF "name_value" \in DOMAIN cert
                                     THEN crtsh_names(s1, Split(cert.name_value, "\n"), domain)
                                     ELSE s1
                           IN  crtsh_certs(s2, Tail(certs), domain)

\* TRUE when an except clause of lines 126-131 runs: the request fails, the
\* status is no 2xx, the body is no JSON, or the loop over the certificates
\* meets a common_name or name_value that is no string
crtsh_raises(resp) ==
    \/ resp.kind # "ok"
    \/ \E i \in 1..Len(resp.certs) :
          \/ "common_name" \in DOMAIN resp.certs[i] /\ resp.certs[i].common_name = None
          \/ "name_value" \in DOMAIN resp.certs[i] /\ resp.certs[i].name_value = None

\* the set behind the returned list, for one response of crt.sh
discover_subdomains_crtsh(domain, resp) ==
    IF resp.kind # "ok" THEN {}
    ELSE crtsh_certs({}, resp.certs, domain)

\* ------------------------------------------------------------------------
\* dns_enumerator.py: perform_reverse_dns_lookup
\* ------------------------------------------------------------------------

\* the outcome of socket.gethostbyaddr: a hostname, or an exception
perform_reverse_dns_lookup(outcome) ==
    IF outcome.kind = "ok" THEN outcome.hostname ELSE None

\* ------------------------------------------------------------------------
\* dns_enumerator.py: run_dns_enum, the graph helpers
\* ------------------------------------------------------------------------

\* Python truthiness of an Optional[str]
Truthy(s) == s # None /\ s # <<>>

\* the traversal state add_node closes over
EmptyGraph == [nodes |-> <<>>, node_map |-> <<>>, next_node_id |-> 0]

\* add_node without the lookup in node_map: every call appends a node
add_node_always_new(g, node_type, value, label) ==
    LET normalized_value == Strip(Lower(value))
    IN  [g |-> [nodes |-> Append(g.nodes,
                              [id |-> g.next_node_id, type |-> node_type,
                               value |-> normalized_value,
                               label |-> IF Truthy(label) THEN label ELSE value]),
                 node_map |-> [v \in DOMAIN g.node_map \cup {normalized_value} |->
                                  IF v = normalized_value THEN g.next_node_id
                                  ELSE g.node_map[v]],
                 next_node_id |-> g.next_node_id + 1],
          id |-> g.next_node_id]

\* add_node that steps the counter by two
add_node_skip_id(g, node_type, value, label) ==
    LET normalized_value == Strip(Lower(value))
    IN  IF normalized_value \notin DOMAIN g.node_map
        THEN [g |-> [nodes |-> Append(g.nodes,
                                  [id |-> g.next_node_id, type |-> node_type,
                                   value |-> normalized_value,
                                   label |-> IF Truthy(label) THEN label ELSE value]),
                     node_map |-> [v \in DOMAIN g.node_map \cup {normalized_value} |->
                                      IF v = normalized_value THEN g.next_node_id
                                      ELSE g.node_map[v]],
                     next_node_id |-> g.next_node_id + 2],
              id |-> g.next_node_id]
        ELSE [g |-> g, id |-> g.node_map[normalized_value]]

\* add_node that records the latest type on a value it already knows
add_node_retype(g, node_type, value, label) ==
    LET normalized_value == Strip(Lower(value))
    IN  IF normalized_value \notin DOMAIN g.node_map
        THEN [g |-> [nodes |-> Append(g.nodes,
                                  [id |-> g.next_node_id, type |-> node_type,
                                   value |-> normalized_value,
                                   label |-> IF Truthy(label) THEN label ELSE value]),
                     node_map |-> [v \in DOMAIN g.node_map \cup {normalized_value} |->
                                      IF v = normalized_value THEN g.next_node_id
                                      ELSE g.node_map[v]],
                     next_node_id |-> g.next_node_id + 1],
              id |-> g.next_node_id]
        ELSE [g |-> [g EXCEPT !.nodes =
                        [i \in 1..Len(g.nodes) |->
                            IF g.nodes[i].value = normalized_value
                            THEN [g.nodes[i] EXCEPT !.type = node_type]
                            ELSE g.nodes[i]]],
              id |-> g.node_map[normalized_value]]

\* add_node: the graph after the call and the id it returns
add_node(g, node_type, value, label) ==
    LET normalized_value == Strip(Lower(value))
    IN  IF normalized_value \notin DOMAIN g.node_map
        THEN [g |-> [nodes |-> Append(g.nodes,
                                  [id |-> g.next_node_id, type |-> node_type,
                                   value |-> normalized_value,
                                   label |-> IF Truthy(label) THEN label ELSE value]),
                     node_map |-> [v \in DOMAIN g.node_map \cup {normalized_value} |->
                                      IF v = normalized_value THEN g.next_node_id
                                      ELSE g.node_map[v]],
                     next_node_id |-> g.next_node_id + 1],
              id |-> g.next_node_id]
        ELSE [g |-> g, id |-> g.node_map[normalized_value]]

\* an edge whose target is the id after the one add_node returned
Link_target_off_by_one(source, target, type) ==
    [source |-> source, target |-> target + 1, type |-> type]

\* links.append({...})
Link(source, target, type) == [source |-> source, target |-> target, type |-> type]

\* mx_hostname of one MX record: re.match(r'\d+\s+(.*)', mx_record), then
\* strip('.') and lower()
mx_hostname_of(mx_record) ==
    LET nd == IF \A i \in 1..Len(mx_record) : mx_record[i] \in Digits
              THEN Len(mx_record)
              ELSE (CHOOSE i \in 1..Len(mx_record) :
                       mx_record[i] \notin Digits
                       /\ \A j \in 1..(i - 1) : mx_record[j] \in Digits) - 1
        rest1 == SubSeq(mx_record, nd + 1, Len(mx_record))
        ns == IF \A i \in 1..Len(rest1) : rest1[i] \in Whitespace
              THEN Len(rest1)
              ELSE (CHOOSE i \in 1..Len(rest1) :
                       rest1[i] \notin Whitespace
                       /\ \A j \in 1..(i - 1) : rest1[j] \in Whitespace) - 1
        rest2 == SubSeq(rest1, ns + 1, Len(rest1))
        group1 == Split(rest2, "\n")[1]
        matched == nd >= 1 /\ ns >= 1
    IN  Lower(StripChars(IF matched THEN group1 ELSE mx_record, {"."}))

\* the test with the names compared as they are, without lower()
ptr_differs_case_sensitive(hostname, name) == Truthy(hostname) /\ hostname # name

\* "if hostname and hostname.lower() != <name>" of lines 186, 210, 227 and
\* 288: the reverse lookup gave a name other than the one that was resolved
ptr_differs(hostname, name) == Truthy(hostname) /\ Lower(hostname) # name

\* an await that takes up an answer and leaves the call in flight
call_returned_kept(calls) == calls

\* "await": the coroutine goes on when the awaited call has answered
call_returned(calls) == Tail(calls)

\* an external call is sent (client.get, socket.gethostbyaddr in a thread)
call_started(calls, call) == Append(calls, call)

\* a name that is not bound in the module cannot be called
NameBound(name) == name \in ModuleGlobals

\* ------------------------------------------------------------------------
\* The environment of run_dns_enum: inputs and upstream answers
\* ------------------------------------------------------------------------

DomAB == <<"a", ".", "b">>
HostMAB == <<"M", ".", "a", ".", "b">>
IP1 == <<"1", ".", "1", ".", "1", ".", "1">>
IP2 == <<"2", ".", "2", ".", "2", ".", "2">>

\* the domain argument: a plain name, one to lower-case and trim, one with
\* two consecutive dots, and an internationalized name
RootInputs == {DomAB, <<" ", "A", ".", "b">>, <<"a", ".", ".", "b">>, <<UUml, ".", "b">>}

\* one entry of a DoH Answer list
Entry(name, data) == [name |-> name, data |-> data]

\* an Answer entry without the "data" key
BadEntry == [name |-> DomAB]

\* the Answer lists the upstream may return, by query type
DohAnswers(q_type) ==
    CASE q_type = "A"     -> BoundedSeq({Entry(DomAB, IP1), Entry(DomAB, IP2), BadEntry}, MaxA)
      [] q_type = "AAAA"  -> {<<Entry(DomAB, <<":", ":", "1">>)>>}
      [] q_type = "MX"    -> {<<Entry(DomAB, <<"1", "0", " ">> \o HostMAB \o <<".">>)>>,
                              <<Entry(DomAB, Lower(HostMAB) \o <<".">>)>>}
      [] q_type = "NS"    -> {<<Entry(DomAB, HostMAB \o <<".">>)>>}
      [] q_type = "TXT"   -> {<<Entry(DomAB, <<"t">>), Entry(DomAB, <<"u">>)>>}
      [] q_type = "CNAME" -> {<<Entry(DomAB \o <<".">>, <<"c", ".", "b", ".">>)>>,
                              <<Entry(<<"w", ".">> \o DomAB \o <<".">>, HostMAB \o <<".">>)>>}
      [] q_type = "SOA"   -> {<<Entry(DomAB, <<"s">>)>>}

\* what one DoH request may come back with: a transport error, a non-2xx
\* status, a body that is no JSON, a body without Answer, an Answer list
DohResponses(q_type) ==
    {[kind |-> k, answer |-> <<>>] :
        k \in {"request_error", "status_error", "json_error", "no_answer"}}
    \cup {[kind |-> "ok", answer |-> a] : a \in DohAnswers(q_type) \cup {<<>>}}

\* what socket.gethostbyaddr may do
ReverseOutcomes ==
    {[kind |-> k, hostname |-> None] : k \in {"herror", "gaierror", "other_error"}}
    \cup {[kind |-> "ok", hostname |-> h] : h \in {DomAB, <<"A", ".", "b">>, HostMAB}}

\* certificates of a crt.sh answer
CertCN == [common_name |-> <<"w", ".">> \o DomAB]
CertNames == [name_value |-> <<"*", ".">> \o DomAB \o <<"\n">> \o <<"X", ".">> \o DomAB]
CertBroken == [common_name |-> None]

CrtshResponses ==
    {[kind |-> k, certs |-> <<>>] : k \in {"request_error", "status_error", "json_error"}}
    \cup {[kind |-> "ok", certs |-> c] :
             c \in {<<>>, <<CertCN>>, <<CertNames>>, <<CertBroken>>,
                    <<CertCN, CertBroken>>, <<CertBroken, CertCN>>}}

\* ------------------------------------------------------------------------
\* State
\* ------------------------------------------------------------------------

VARIABLES
    pc,               \* position of run_dns_enum
    domain,           \* the local variable domain
    nodes, links, node_map, next_node_id,   \* the traversal state
    main_domain_id,
    main_dns_records, \* the records dict (while built, and as returned)
    q_idx,            \* position in query_types
    idx,              \* position in the record list being looped over
    cur_ip, cur_ip_id,\* the address whose reverse lookup is awaited
    hostname,         \* what the latest reverse lookup returned
    crtsh_failed,     \* an except clause of discover_subdomains_crtsh has run
    crtsh_subdomains, \* what discover_subdomains_crtsh returned, as a set
    discovered_subdomains,
    todo,             \* the elements of discovered_subdomains not yet visited
    error,            \* the exception that ended the run, "" while there is none
    result,           \* the returned graph_data, or None
    issued,           \* the external calls issued so far, in order
    awaiting,         \* the external calls sent and not yet answered
    last_adds         \* the add_node calls of the latest step

dns_vars == <<pc, domain, nodes, links, node_map, next_node_id, main_domain_id,
              main_dns_records, q_idx, idx, cur_ip, cur_ip_id, hostname, crtsh_failed,
              crtsh_subdomains, awaiting,
              discovered_subdomains, todo, error, result, issued, last_adds>>

\* the closure state of add_node as one value
Graph == [nodes |-> nodes, node_map |-> node_map, next_node_id |-> next_node_id]

\* write a graph value back to the traversal state
SetGraph(g) ==
    /\ nodes' = g.nodes
    /\ node_map' = g.node_map
    /\ next_node_id' = g.next_node_id

\* the record of one add_node call, for last_adds: the type and value it was
\* called with on graph g, whether the value already had a node and under
\* which id, the id returned and the number of nodes appended
AddCall(g, node_type, value, r) ==
    LET v == Strip(Lower(value))
    IN  [type |-> node_type, value |-> v,
         known |-> v \in DOMAIN g.node_map,
         prior |-> IF v \in DOMAIN g.node_map THEN g.node_map[v] ELSE -1,
         id |-> r.id,
         grew |-> Len(r.g.nodes) - Len(g.nodes)]

\* ------------------------------------------------------------------------
\* State of the port scanner
\* ------------------------------------------------------------------------

VARIABLES
    ps_call,      \* the function the caller invoked, "" before the call
    ps_pc,        \* "idle", "resolve" (A query awaited), "scan" (gather awaited), "returned"
    ps_target,    \* the argument of the call
    ps_resolved,  \* what resolve_domain_to_ip returned to run_port_scan
    ps_ip,        \* the address handed to local_port_check_python
    ps_scan,      \* what local_port_check_python returned
    ps_result,    \* what the invoked function returned
    doh_requests, \* the number of DoH requests resolve_domain_to_ip has sent
    doh_response, \* what the A query of resolve_domain_to_ip came back with
    probes,       \* the TCP connects started, as <<ip, port>>
    ps_done,      \* the probes that have finished: port -> how the probe ended
    completion,   \* the ports in the order in which their probes finished
    accepted      \* the ports whose connect succeeded in the last scan

ps_vars == <<ps_call, ps_pc, ps_target, ps_resolved, ps_ip, ps_scan, ps_result,
             doh_requests, doh_response, probes, ps_done, completion, accepted>>

\* no response yet
NoResponse == [kind |-> "", answer |-> <<>>]

\* no probe has finished
NoneDone == [port \in {} |-> ""]

NoScan == [source |-> "", ports |-> <<>>, services |-> <<>>, note |-> ""]

NoResult == [status |-> ""]

InitPs ==
    /\ ps_call = ""
    /\ ps_pc = "idle"
    /\ ps_target = None
    /\ ps_resolved = None
    /\ ps_ip = None
    /\ ps_scan = NoScan
    /\ ps_result = NoResult
    /\ doh_requests = 0
    /\ doh_response = NoResponse
    /\ probes = {}
    /\ ps_done = NoneDone
    /\ completion = <<>>
    /\ accepted = {}

\* ------------------------------------------------------------------------
\* State of a call of normalizeDomainForDNS on its own
\* ------------------------------------------------------------------------

VARIABLES
    nz_pc,     \* "idle", "returned" (first call), "again" (called on its own output)
    nz_domain, \* the argument of the first call
    nz_result, \* what the first call returned
    nz_again   \* what the call on nz_result returned

nz_vars == <<nz_pc, nz_domain, nz_result, nz_again>>

InitNz ==
    /\ nz_pc = "idle"
    /\ nz_domain = None
    /\ nz_result = None
    /\ nz_again = None

\* ------------------------------------------------------------------------
\* State of a call of get_dns_records on its own
\* ------------------------------------------------------------------------

VARIABLES
    gr_pc,      \* "idle", "query" (a response is awaited), "returned"
    gr_records, \* the records dict
    gr_q_idx,   \* position in query_types
    gr_queried, \* the types queried so far, in order
    gr_failed   \* the types whose lookup ended in an except clause

gr_vars == <<gr_pc, gr_records, gr_q_idx, gr_queried, gr_failed>>

InitGr ==
    /\ gr_pc = "idle"
    /\ gr_records = EmptyRecords
    /\ gr_q_idx = 0
    /\ gr_queried = <<>>
    /\ gr_failed = {}

\* ------------------------------------------------------------------------
\* State of a call of discover_subdomains_crtsh on its own
\* ------------------------------------------------------------------------

VARIABLES
    cs_pc,         \* "idle", "request" (the answer of crt.sh is awaited), "returned"
    cs_domain,     \* the argument
    cs_response,   \* what crt.sh answered
    cs_subdomains  \* the returned list, as a set

cs_vars == <<cs_pc, cs_domain, cs_response, cs_subdomains>>

\* crt.sh has not answered yet
NoCrtshAnswer == [kind |-> "", certs |-> <<>>]

InitCs ==
    /\ cs_pc = "idle"
    /\ cs_domain = None
    /\ cs_response = NoCrtshAnswer
    /\ cs_subdomains = {}

\* ------------------------------------------------------------------------
\* State of a request to scan_and_scrape_emails (app/spiderfoot_scraper.py)
\* ------------------------------------------------------------------------

VARIABLES
    sf_pc,          \* "idle", "start", "poll", "sleep", "results", "returned", "raised"
    sf_target,      \* request.target_domain
    sf_scan_id,     \* what start_new_scan returned
    sf_statuses,    \* the statuses read from the status responses, in order
    sf_scan_status, \* what check_scan_status returned
    sf_requests,    \* the HTTP requests sent to SpiderFoot, in order
    sf_polls,       \* the sleeps of check_scan_status so far
    sf_error,       \* the exception that ended the request
    sf_body         \* the returned body

sf_vars == <<sf_pc, sf_target, sf_scan_id, sf_statuses, sf_scan_status, sf_requests,
             sf_polls, sf_error, sf_body>>

\* check_scan_status has not returned; also a status response without
\* "status"
NoStatus == "null"

NoError == [type |-> "", status_code |-> 0, detail |-> ""]

NoBody == [status |-> "", scan_id |-> None, emails_found |-> <<>>, total_emails |-> 0]

InitSf ==
    /\ sf_pc = "idle"
    /\ sf_target = None
    /\ sf_scan_id = None
    /\ sf_statuses = <<>>
    /\ sf_scan_status = NoStatus
    /\ sf_requests = <<>>
    /\ sf_polls = 0
    /\ sf_error = NoError
    /\ sf_body = NoBody

\* ------------------------------------------------------------------------
\* Two invocations of run_dns_enum on one event loop
\* ------------------------------------------------------------------------

\* One coroutine runs at a time: pc, domain, nodes, ... above are the locals
\* of the invocation that is running, and the locals of the other invocation
\* rest in its frame until the event loop resumes it.
VARIABLES
    suspended  \* the frame of the invocation that is not running

\* the frame of the running invocation: the locals of lines 155-163 and the
\* position of the coroutine
Frame ==
    [pc |-> pc, domain |-> domain, nodes |-> nodes, links |-> links,
     node_map |-> node_map, next_node_id |-> next_node_id,
     main_domain_id |-> main_domain_id, main_dns_records |-> main_dns_records,
     q_idx |-> q_idx, idx |-> idx, cur_ip |-> cur_ip, cur_ip_id |-> cur_ip_id,
     hostname |-> hostname, crtsh_failed |-> crtsh_failed,
     crtsh_subdomains |-> crtsh_subdomains, awaiting |-> awaiting,
     discovered_subdomains |-> discovered_subdomains, todo |-> todo,
     error |-> error, result |-> result, issued |-> issued, last_adds |-> last_adds]

\* a frame with next_node_id taken from another frame: what a resumed
\* invocation would see were the counter one module-level variable
resume_shared_counter(frame, other) ==
    [frame EXCEPT !.next_node_id = other.next_node_id]

\* the locals a resumed invocation sees: nodes, links, node_map and
\* next_node_id are created by each call (lines 159-163) and reached by
\* add_node through its closure (nonlocal, line 166), so they are its own
\* frame's whatever the other invocation did
resume(frame, other) ==
    frame

\* what a step of one part of the program leaves alone: the state of the
\* other parts
not_dns_vars == <<suspended, ps_vars, nz_vars, gr_vars, cs_vars, sf_vars>>

not_ps_vars == <<dns_vars, suspended, nz_vars, gr_vars, cs_vars, sf_vars>>

not_nz_vars == <<dns_vars, suspended, ps_vars, gr_vars, cs_vars, sf_vars>>

not_gr_vars == <<dns_vars, suspended, ps_vars, nz_vars, cs_vars, sf_vars>>

not_frame_vars == <<ps_vars, nz_vars, gr_vars, cs_vars, sf_vars>>

not_cs_vars == <<dns_vars, suspended, ps_vars, nz_vars, gr_vars, sf_vars>>

not_sf_vars == <<dns_vars, suspended, ps_vars, nz_vars, gr_vars, cs_vars>>

InitDns ==
    /\ pc = "idle"
    /\ domain = None
    /\ nodes = <<>>
    /\ links = <<>>
    /\ node_map = <<>>
    /\ next_node_id = 0
    /\ main_domain_id = 0
    /\ main_dns_records = EmptyRecords
    /\ q_idx = 0
    /\ idx = 0
    /\ cur_ip = None
    /\ cur_ip_id = 0
    /\ hostname = None
    /\ crtsh_failed = FALSE
    /\ crtsh_subdomains = {}
    /\ awaiting = <<>>
    /\ discovered_subdomains = {}
    /\ todo = {}
    /\ error = ""
    /\ result = None
    /\ issued = <<>>
    /\ last_adds = <<>>

\* ------------------------------------------------------------------------
\* run_dns_enum, one action per stretch of code between two suspension
\* points or loop heads
\* ------------------------------------------------------------------------

\* lines 155-178: lower-case and trim the argument, create the traversal
\* state and the root node, enter get_dns_records and send the first query
RunDnsEnum(d) ==
    /\ pc = "idle"
    /\ LET dom == Strip(Lower(d))
           r   == add_node(EmptyGraph, "domain", dom, dom)
       IN  /\ domain' = dom
           /\ SetGraph(r.g)
           /\ main_domain_id' = r.id
           /\ last_adds' = <<AddCall(EmptyGraph, "domain", dom, r)>>
    /\ links' = <<>>
    /\ main_dns_records' = EmptyRecords
    /\ q_idx' = 1
    /\ issued' = Append(issued, "doh")
    /\ awaiting' = call_started(awaiting, "doh")
    /\ pc' = "get_dns_records"
    /\ UNCHANGED <<hostname, idx, cur_ip, cur_ip_id, crtsh_failed, crtsh_subdomains, discovered_subdomains, todo,
                   error, result>>
    /\ UNCHANGED not_dns_vars

\* lines 60-91: the response to the query of query_types[q_idx] arrives; the
\* next query is sent, or get_dns_records returns to line 179
DohQuery ==
    /\ pc = "get_dns_records"
    /\ \E resp \in DohResponses(query_types[q_idx]) :
          main_dns_records' = dns_query_step(main_dns_records, query_types[q_idx], resp)
    /\ IF q_idx < Len(query_types)
       THEN /\ q_idx' = q_idx + 1
            /\ issued' = Append(issued, "doh")
            /\ awaiting' = call_started(call_returned(awaiting), "doh")
            /\ pc' = pc
            /\ idx' = idx
       ELSE /\ q_idx' = q_idx
            /\ issued' = issued
            /\ awaiting' = call_returned(awaiting)
            /\ pc' = "loop_A"
            /\ idx' = 1
    /\ last_adds' = <<>>
    /\ UNCHANGED <<hostname, domain, nodes, links, node_map, next_node_id, main_domain_id,
                   cur_ip, cur_ip_id, crtsh_failed, crtsh_subdomains, discovered_subdomains, todo, error, result>>
    /\ UNCHANGED not_dns_vars

\* lines 181-185: the head of the loop over the A records; one iteration
\* adds the address and its A_record link and starts the reverse lookup
LoopA ==
    /\ pc = "loop_A"
    /\ IF idx <= Len(main_dns_records.A)
       THEN LET ip == main_dns_records.A[idx]
                r  == add_node(Graph, "ip_v4", ip, None)
            IN  /\ SetGraph(r.g)
                /\ links' = Append(links, Link(main_domain_id, r.id, "A_record"))
                /\ cur_ip' = ip
                /\ cur_ip_id' = r.id
                /\ last_adds' = <<AddCall(Graph, "ip_v4", ip, r)>>
                /\ issued' = Append(issued, "reverse")
                /\ awaiting' = call_started(awaiting, "reverse")
                /\ pc' = "reverse_A"
                /\ idx' = idx
       ELSE /\ pc' = "loop_AAAA"
            /\ idx' = 1
            /\ last_adds' = <<>>
            /\ UNCHANGED <<nodes, links, node_map, next_node_id, cur_ip, cur_ip_id, issued, awaiting>>
    /\ UNCHANGED <<hostname, domain, main_domain_id, main_dns_records, q_idx,
                   crtsh_failed, crtsh_subdomains, discovered_subdomains, todo, error, result>>
    /\ UNCHANGED not_dns_vars

\* lines 185-189: the reverse lookup of an A record returns
ReverseA(outcome) ==
    /\ pc = "reverse_A"
    /\ hostname' = perform_reverse_dns_lookup(outcome)
    /\ IF ptr_differs(hostname', domain)
       THEN LET r == add_node(Graph, "domain", hostname', None)
            IN  /\ SetGraph(r.g)
                /\ links' = Append(links, Link(cur_ip_id, r.id, "PTR_record"))
                /\ last_adds' = <<AddCall(Graph, "domain", hostname', r)>>
       ELSE /\ last_adds' = <<>>
            /\ UNCHANGED <<nodes, links, node_map, next_node_id>>
    /\ idx' = idx + 1
    /\ pc' = "loop_A"
    /\ UNCHANGED <<domain, main_domain_id, main_dns_records, q_idx, cur_ip, cur_ip_id,
                   crtsh_failed, crtsh_subdomains, discovered_subdomains, todo, error, result, issued>>
    /\ awaiting' = call_returned(awaiting)
    /\ UNCHANGED not_dns_vars

\* lines 191-194: one pass of the loop over the AAAA records
LoopAAAA ==
    /\ pc = "loop_AAAA"
    /\ IF idx <= Len(main_dns_records.AAAA)
       THEN LET ip == main_dns_records.AAAA[idx]
                r  == add_node(Graph, "ip_v6", ip, None)
            IN  /\ SetGraph(r.g)
                /\ links' = Append(links, Link(main_domain_id, r.id, "AAAA_record"))
                /\ last_adds' = <<AddCall(Graph, "ip_v6", ip, r)>>
                /\ idx' = idx + 1
                /\ pc' = pc
       ELSE /\ pc' = "loop_MX"
            /\ idx' = 1
            /\ last_adds' = <<>>
            /\ UNCHANGED <<nodes, links, node_map, next_node_id>>
    /\ UNCHANGED <<hostname, domain, main_domain_id, main_dns_records, q_idx, cur_ip, cur_ip_id,
                   crtsh_failed, crtsh_subdomains, discovered_subdomains, todo, error, result, issued, awaiting>>
    /\ UNCHANGED not_dns_vars

\* the call of run_port_scan_resolve_domain_to_ip at lines 204, 221, 255 and
\* 282: the name is bound nowhere in the module, so evaluating it raises
\* NameError, which no handler of run_dns_enum catches
CallResolver ==
    /\ ~NameBound("run_port_scan_resolve_domain_to_ip")
    /\ error' = "NameError"
    /\ pc' = "raised"

\* lines 196-204: the head of the loop over the MX records; one iteration
\* adds the mail server and its MX_record link and calls the resolver
LoopMX ==
    /\ pc = "loop_MX"
    /\ IF idx <= Len(main_dns_records.MX)
       THEN LET mx_hostname == mx_hostname_of(main_dns_records.MX[idx])
                r == add_node(Graph, "mail_server", mx_hostname, None)
            IN  /\ SetGraph(r.g)
                /\ links' = Append(links, Link(main_domain_id, r.id, "MX_record"))
                /\ last_adds' = <<AddCall(Graph, "mail_server", mx_hostname, r)>>
                /\ CallResolver
                /\ idx' = idx
       ELSE /\ pc' = "loop_NS"
            /\ idx' = 1
            /\ last_adds' = <<>>
            /\ UNCHANGED <<nodes, links, node_map, next_node_id, error>>
    /\ UNCHANGED <<hostname, domain, main_domain_id, main_dns_records, q_idx, cur_ip, cur_ip_id,
                   crtsh_failed, crtsh_subdomains, discovered_subdomains, todo, result, issued, awaiting>>
    /\ UNCHANGED not_dns_vars

\* lines 216-221: the head of the loop over the NS records
LoopNS ==
    /\ pc = "loop_NS"
    /\ IF idx <= Len(main_dns_records.NS)
       THEN LET ns_hostname == Lower(StripChars(main_dns_records.NS[idx], {"."}))
                r == add_node(Graph, "name_server", ns_hostname, None)
            IN  /\ SetGraph(r.g)
                /\ links' = Append(links, Link(main_domain_id, r.id, "NS_record"))
                /\ last_adds' = <<AddCall(Graph, "name_server", ns_hostname, r)>>
                /\ CallResolver
                /\ idx' = idx
       ELSE /\ pc' = "txt"
            /\ idx' = 1
            /\ last_adds' = <<>>
            /\ UNCHANGED <<nodes, links, node_map, next_node_id, error>>
    /\ UNCHANGED <<hostname, domain, main_domain_id, main_dns_records, q_idx, cur_ip, cur_ip_id,
                   crtsh_failed, crtsh_subdomains, discovered_subdomains, todo, result, issued, awaiting>>
    /\ UNCHANGED not_dns_vars

\* a node left without the attribute
WithTxt_not_set(node, txt_data) == node

\* node["txt_records"] = txt_data
WithTxt(node, txt_data) ==
    [f \in DOMAIN node \cup {"txt_records"} |->
        IF f = "txt_records" THEN txt_data ELSE node[f]]

\* lines 233-239: the TXT records go to the first node whose id is
\* main_domain_id
TxtRecords ==
    /\ pc = "txt"
    /\ IF main_dns_records.TXT # <<>>
       THEN LET txt_data == Join(main_dns_records.TXT, "\n")
                hits == {i \in 1..Len(nodes) : nodes[i].id = main_domain_id}
            IN  IF hits = {} THEN nodes' = nodes
                ELSE LET i == CHOOSE k \in hits : \A j \in hits : k <= j
                     IN  nodes' = [nodes EXCEPT ![i] = WithTxt(@, txt_data)]
       ELSE nodes' = nodes
    /\ pc' = "loop_CNAME"
    /\ idx' = 1
    /\ last_adds' = <<>>
    /\ UNCHANGED <<hostname, domain, links, node_map, next_node_id, main_domain_id,
                   main_dns_records, q_idx, cur_ip, cur_ip_id, crtsh_failed, crtsh_subdomains, discovered_subdomains,
                   todo, error, result, issued, awaiting>>
    /\ UNCHANGED not_dns_vars

\* lines 241-255: the head of the loop over the CNAME records; one iteration
\* adds origin and target, the CNAME_record link, the CNAME_alias link when
\* the origin is the root, and calls the resolver
LoopCNAME ==
    /\ pc = "loop_CNAME"
    /\ IF idx <= Len(main_dns_records.CNAME)
       THEN LET cname_entry  == main_dns_records.CNAME[idx]
                cname_name   == Lower(StripChars(cname_entry.name, {"."}))
                cname_target == Lower(StripChars(cname_entry.target, {"."}))
                r1 == add_node(Graph, "domain", cname_name, None)
                r2 == add_node(r1.g, "domain", cname_target, None)
                l1 == Append(links, Link(r1.id, r2.id, "CNAME_record"))
            IN  /\ SetGraph(r2.g)
                /\ links' = IF cname_name = domain
                            THEN Append(l1, Link(main_domain_id, r1.id, "CNAME_alias"))
                            ELSE l1
                /\ last_adds' = <<AddCall(Graph, "domain", cname_name, r1),
                                  AddCall(r1.g, "domain", cname_target, r2)>>
                /\ CallResolver
                /\ idx' = idx
                /\ UNCHANGED <<crtsh_failed, crtsh_subdomains, discovered_subdomains, todo, issued, awaiting>>
       ELSE \* lines 262-270: the wordlist candidates, then the crt.sh request
            LET full(i) == COMMON_SUBDOMAINS[i] \o <<".">> \o domain
            IN  /\ discovered_subdomains' =
                       {full(i) : i \in {j \in 1..Len(COMMON_SUBDOMAINS) :
                                            Truthy(normalizeDomainForDNS(full(j)))}}
                /\ todo' = {}
                /\ crtsh_subdomains' = crtsh_subdomains
                /\ crtsh_failed' = crtsh_failed
                /\ issued' = Append(issued, "crtsh")
                /\ awaiting' = call_started(awaiting, "crtsh")
                /\ pc' = "crtsh"
                /\ idx' = idx
                /\ last_adds' = <<>>
                /\ UNCHANGED <<nodes, links, node_map, next_node_id, error>>
    /\ UNCHANGED <<hostname, domain, main_domain_id, main_dns_records, q_idx, cur_ip, cur_ip_id,
                   result>>
    /\ UNCHANGED not_dns_vars

\* lines 270-274: crt.sh answers; its names other than the root that the
\* normalizer accepts join the discovered set
CrtshReturn(resp) ==
    /\ pc = "crtsh"
    /\ crtsh_failed' = crtsh_raises(resp)
    /\ crtsh_subdomains' = discover_subdomains_crtsh(domain, resp)
    /\ discovered_subdomains' = discovered_subdomains \cup
           {sub \in crtsh_subdomains' :
               sub # domain /\ Truthy(normalizeDomainForDNS(sub))}
    /\ todo' = discovered_subdomains'
    /\ pc' = "loop_sub"
    /\ last_adds' = <<>>
    /\ UNCHANGED <<hostname, domain, nodes, links, node_map, next_node_id, main_domain_id,
                   main_dns_records, q_idx, idx, cur_ip, cur_ip_id, error, result, issued>>
    /\ awaiting' = call_returned(awaiting)
    /\ UNCHANGED not_dns_vars

\* lines 276-282 and 295-301: the head of the loop over the discovered set,
\* which Python visits in no particular order; one iteration adds the
\* subdomain and its has_subdomain link and calls the resolver; past the
\* last element the graph is returned
LoopSub ==
    /\ pc = "loop_sub"
    /\ IF todo # {}
       THEN \E subdomain \in todo :
              /\ todo' = todo \ {subdomain}
              /\ IF subdomain # domain
                 THEN LET r == add_node(Graph, "subdomain", subdomain, None)
                      IN  /\ SetGraph(r.g)
                          /\ links' = Append(links, Link(main_domain_id, r.id, "has_subdomain"))
                          /\ last_adds' = <<AddCall(Graph, "subdomain", subdomain, r)>>
                          /\ CallResolver
                 ELSE /\ pc' = pc
                      /\ last_adds' = <<>>
                      /\ UNCHANGED <<nodes, links, node_map, next_node_id, error>>
              /\ result' = result
       ELSE /\ result' = [nodes |-> nodes, links |-> links]
            /\ pc' = "done"
            /\ last_adds' = <<>>
            /\ UNCHANGED <<nodes, links, node_map, next_node_id, error, todo>>
    /\ UNCHANGED <<hostname, domain, main_domain_id, main_dns_records, q_idx, idx, cur_ip,
                   cur_ip_id, crtsh_failed, crtsh_subdomains, discovered_subdomains, issued, awaiting>>
    /\ UNCHANGED not_dns_vars

\* the positions at which the coroutine is suspended (await, lines 178, 185
\* and 270), not yet started, or over
suspension_points == {"idle", "get_dns_records", "reverse_A", "crtsh", "done", "raised"}

\* the event loop suspends the running invocation where it awaits and resumes
\* the other one
Switch ==
    /\ pc \in suspension_points
    /\ suspended' = Frame
    /\ LET f == resume(suspended, Frame)
       IN  /\ pc' = f.pc
           /\ domain' = f.domain
           /\ nodes' = f.nodes
           /\ links' = f.links
           /\ node_map' = f.node_map
           /\ next_node_id' = f.next_node_id
           /\ main_domain_id' = f.main_domain_id
           /\ main_dns_records' = f.main_dns_records
           /\ q_idx' = f.q_idx
           /\ idx' = f.idx
           /\ cur_ip' = f.cur_ip
           /\ cur_ip_id' = f.cur_ip_id
           /\ hostname' = f.hostname
           /\ crtsh_failed' = f.crtsh_failed
           /\ crtsh_subdomains' = f.crtsh_subdomains
           /\ awaiting' = f.awaiting
           /\ discovered_subdomains' = f.discovered_subdomains
           /\ todo' = f.todo
           /\ error' = f.error
           /\ result' = f.result
           /\ issued' = f.issued
           /\ last_adds' = f.last_adds
    /\ UNCHANGED not_frame_vars

\* the upstream of the runs with two invocations: the root has at most the
\* address IP1 and no other record, and crt.sh knows no name
PairUpstream ==
    /\ domain \in {None, DomAB, <<"a", ".", ".", "b">>}
    /\ main_dns_records.A \in {<<>>, <<IP1>>}
    /\ main_dns_records.AAAA = <<>>
    /\ main_dns_records.MX = <<>>
    /\ main_dns_records.NS = <<>>
    /\ main_dns_records.TXT = <<>>
    /\ main_dns_records.CNAME = <<>>
    /\ main_dns_records.SOA = None
    /\ crtsh_subdomains = {}

NextDns ==
    \/ \E d \in RootInputs : RunDnsEnum(d)
    \/ DohQuery
    \/ LoopA
    \/ \E outcome \in ReverseOutcomes : ReverseA(outcome)
    \/ LoopAAAA
    \/ LoopMX
    \/ LoopNS
    \/ TxtRecords
    \/ LoopCNAME
    \/ \E resp \in CrtshResponses : CrtshReturn(resp)
    \/ LoopSub

\* ------------------------------------------------------------------------
\* port_scanner.py: the pure parts
\* ------------------------------------------------------------------------

\* the pattern with \d in place of \d{1,3}: one digit per field
is_valid_ipv4_address_one_digit(ip) ==
    /\ Len(ip) = 7
    /\ \A i \in {1, 3, 5, 7} : ip[i] \in Digits
    /\ \A i \in {2, 4, 6} : ip[i] = "."

\* re.match(r'^\d{1,3}\.\d{1,3}\.\d{1,3}\.\d{1,3}$', ip): four runs of one to
\* three digits separated by dots; $ also matches before a final newline
is_valid_ipv4_address(ip) ==
    LET ends == {Len(ip)} \cup (IF Len(ip) > 0 /\ ip[Len(ip)] = "\n" THEN {Len(ip) - 1} ELSE {})
        digits(from, n) == \A i \in from..(from + n - 1) : ip[i] \in Digits
    IN  \E a \in 1..3, b \in 1..3, c \in 1..3, d \in 1..3 :
           /\ a + b + c + d + 3 \in ends
           /\ digits(1, a)
           /\ ip[a + 1] = "."
           /\ digits(a + 2, b)
           /\ ip[a + b + 2] = "."
           /\ digits(a + b + 3, c)
           /\ ip[a + b + c + 3] = "."
           /\ digits(a + b + c + 4, d)

\* lines 34-50 of resolve_domain_to_ip: the value returned for one response
\* to the A query; every exception handler returns None
resolve_response(resp) ==
    IF resp.kind # "ok" THEN None
    ELSE IF Len(resp.answer) > 0
         THEN IF "data" \in DOMAIN resp.answer[1] THEN resp.answer[1].data ELSE None
         ELSE None

\* check_single_port_python whose first handler lacks asyncio.TimeoutError:
\* a probe that times out is not reported closed
check_single_port_timeout_open(port, outcome) ==
    [port |-> port, open |-> (outcome \in {"connected", "timeout"})]

\* check_single_port_python: the result of one probe. The outcomes are
\* "connected" (open_connection returned in time and wait_closed returned),
\* "connected_reset" (open_connection returned in time, and wait_closed of
\* line 60, which is inside the try block, raised ConnectionResetError) and
\* the ways open_connection under wait_for fails; only line 62 returns open
check_single_port_python(port, outcome) ==
    [port |-> port, open |-> (outcome = "connected")]

\* the connect of a probe succeeded within the timeout
connect_succeeded(outcome) == outcome \in {"connected", "connected_reset"}

common_ports == <<21, 22, 23, 25, 53, 80, 110, 143, 443, 465, 587, 993, 995, 3306, 3389,
                  8080, 8443>>

\* the position of a port in common_ports
PortIndex(port) == CHOOSE i \in 1..Len(common_ports) : common_ports[i] = port

\* the if/elif chain of lines 88-106
service_entry(port) ==
    LET named(n) == [port |-> port, protocol |-> "tcp", service |-> n]
        both(n, p) == [port |-> port, protocol |-> p, service |-> n]
    IN  CASE port = 21 -> named("ftp")
          [] port = 22 -> named("ssh")
          [] port = 23 -> named("telnet")
          [] port = 25 -> named("smtp")
          [] port = 53 -> named("dns")
          [] port = 80 -> both("http", "http")
          [] port = 110 -> named("pop3")
          [] port = 143 -> named("imap")
          [] port = 443 -> both("https", "https")
          [] port = 465 -> both("smtps", "ssl/tls")
          [] port = 587 -> both("submission", "smtp")
          [] port = 993 -> both("imaps", "ssl/tls")
          [] port = 995 -> both("pop3s", "ssl/tls")
          [] port = 3306 -> named("mysql")
          [] port = 3389 -> named("rdp")
          [] port = 8080 -> both("http-alt", "http")
          [] port = 8443 -> both("https-alt", "https")
          [] OTHER -> named("unknown")

\* the results in the order in which the probes finished, as
\* asyncio.as_completed would hand them over
gathered_as_completed(done, order) ==
    [i \in 1..Len(order) |-> check_single_port_python(order[i], done[order[i]])]

\* lines 79-81, asyncio.gather: the results of the probes in the order of
\* the awaitables, which is that of common_ports, whatever the order in
\* which they finished
gathered(done, order) ==
    [i \in 1..Len(common_ports) |->
        check_single_port_python(common_ports[i], done[common_ports[i]])]

\* "if r['open']" of lines 83 and 86
IsOpen(r) == r.open

\* lines 83-115 of local_port_check_python: the returned dict for the
\* gathered results, which are in the order of common_ports
local_port_check_result(results) ==
    LET open == SelectSeq(results, IsOpen)
    IN  [source |-> "local-check",
         ports |-> [i \in 1..Len(open) |-> open[i].port],
         services |-> [i \in 1..Len(open) |-> service_entry(open[i].port)],
         note |-> "Performed local check on common ports."]

\* run_port_scan without the else branch of line 131
resolved_ok_unchecked(resolved_ip) == TRUE

\* lines 128-134 of run_port_scan: TRUE when the scan goes on with the
\* resolved address
resolved_ok(resolved_ip) == Truthy(resolved_ip)

\* lines 142-150 of run_port_scan
port_scan_success(target, ip, scan_result) ==
    [status |-> "success", target |-> target, ip |-> ip, source |-> scan_result.source,
     ports |-> scan_result.ports, services |-> scan_result.services,
     note |-> scan_result.note]

\* line 134 of run_port_scan
port_scan_error(target) ==
    [status |-> "error", error |-> target, note |-> "DNS resolution failed."]

\* ------------------------------------------------------------------------
\* The environment of the port scanner
\* ------------------------------------------------------------------------

\* the strings resolve_domain_to_ip is called with
ResolveInputs ==
    BoundedSeq({"1", ".", "a"}, MaxLen)
    \cup {<<"1", "2", ".", "1", "2", "3", ".", "1", ".", "1">>, IP1 \o <<"\n">>}

\* the targets run_port_scan is called with: a literal, a name, nothing, a
\* literal followed by a newline
ScanTargets == {IP1, DomAB, <<>>, IP1 \o <<"\n">>}

\* what the A query of resolve_domain_to_ip may come back with
ResolveResponses ==
    {[kind |-> k, answer |-> <<>>] :
        k \in {"status_error", "request_error", "json_error", "no_answer"}}
    \cup {[kind |-> "ok", answer |-> a] :
             a \in {<<>>, <<Entry(DomAB, IP2)>>, <<Entry(DomAB, IP2), Entry(DomAB, IP1)>>,
                    <<BadEntry>>}}

\* how a connect that does not succeed may end: asyncio.TimeoutError,
\* ConnectionRefusedError, another OSError, any other exception
ProbeFailures == <<"timeout", "refused", "os_error", "other_error">>

\* the way the connect to the i-th port of common_ports ends when nothing
\* accepts it: the four ways take turns over the table
FailureOf(i) == ProbeFailures[(i % Len(ProbeFailures)) + 1]

\* the ports that may accept a connection: any of the table when
\* local_port_check_python is called on its own, a sample of it under
\* run_port_scan
SamplePorts == {80, 443, 3306, 8443}

Listening(call) ==
    IF call = "local_port_check_python" THEN SUBSET Range(common_ports)
    ELSE SUBSET SamplePorts

\* the ports at which a listener may reset the connection right after
\* accepting it
ResetPorts == {443}

\* how the probe of the i-th port ends on a host where the ports of S accept
\* and those of R reset after accepting
OutcomeOn(S, R, i) ==
    IF common_ports[i] \in R THEN "connected_reset"
    ELSE IF common_ports[i] \in S THEN "connected"
    ELSE FailureOf(i)

\* the probes that may finish at any moment; the others finish one after the
\* other in the order of the table
Overtaking == {80, 443}

\* how the probe of the i-th port may end when the probes are followed one
\* by one: the ports of SamplePorts may accept
ProbeOutcomes(i) ==
    IF common_ports[i] \in SamplePorts
    THEN {"connected", FailureOf(i)}
         \cup (IF common_ports[i] \in ResetPorts THEN {"connected_reset"} ELSE {})
    ELSE {FailureOf(i)}

\* lines 79-81: asyncio.gather creates one probe per port of common_ports
StartProbes(ip) ==
    /\ ps_ip' = ip
    /\ probes' = probes \cup {<<ip, common_ports[i]>> : i \in 1..Len(common_ports)}
    /\ ps_pc' = "scan"

\* lines 83-115 and, under run_port_scan, lines 140-150: gather has handed
\* over the results
ScanReturns(results) ==
    /\ ps_scan' = local_port_check_result(results)
    /\ ps_result' = IF ps_call = "run_port_scan"
                    THEN port_scan_success(ps_target, ps_ip, ps_scan')
                    ELSE ps_scan'
    /\ ps_pc' = "returned"

\* resolve_domain_to_ip called on its own, lines 23-33: a literal is
\* returned at once, anything else sends the A query
CallResolve ==
    /\ ps_pc = "idle"
    /\ \E s \in ResolveInputs :
          /\ ps_target' = s
          /\ IF is_valid_ipv4_address(s)
             THEN /\ ps_result' = [status |-> "returned", value |-> s]
                  /\ ps_pc' = "returned"
                  /\ doh_requests' = doh_requests
             ELSE /\ ps_result' = ps_result
                  /\ ps_pc' = "resolve"
                  /\ doh_requests' = doh_requests + 1
    /\ ps_call' = "resolve_domain_to_ip"
    /\ UNCHANGED <<ps_resolved, ps_ip, ps_scan, doh_response, probes, ps_done, completion, accepted>>
    /\ UNCHANGED not_ps_vars

\* run_port_scan, lines 121-127 and 135-139: a literal target is scanned as
\* it is, anything else goes to resolve_domain_to_ip, which sends the A query
CallRunPortScan(target) ==
    /\ ps_pc = "idle"
    /\ ps_call' = "run_port_scan"
    /\ ps_target' = target
    /\ IF ~is_valid_ipv4_address(target)
       THEN /\ ps_pc' = "resolve"
            /\ doh_requests' = doh_requests + 1
            /\ UNCHANGED <<ps_ip, probes>>
       ELSE /\ StartProbes(target)
            /\ doh_requests' = doh_requests
    /\ UNCHANGED <<ps_resolved, ps_scan, ps_result, doh_response, ps_done, completion, accepted>>
    /\ UNCHANGED not_ps_vars

\* the A query of resolve_domain_to_ip comes back (lines 34-50); under
\* run_port_scan lines 128-139 follow
ResolveReturn(resp) ==
    /\ ps_pc = "resolve"
    /\ doh_response' = resp
    /\ LET value == resolve_response(resp)
       IN  IF ps_call = "resolve_domain_to_ip"
           THEN /\ ps_result' = [status |-> "returned", value |-> value]
                /\ ps_pc' = "returned"
                /\ UNCHANGED <<ps_resolved, ps_ip, probes>>
           ELSE /\ ps_resolved' = value
                /\ IF resolved_ok(value)
                   THEN /\ StartProbes(value)
                        /\ ps_result' = ps_result
                   ELSE /\ ps_result' = port_scan_error(ps_target)
                        /\ ps_pc' = "returned"
                        /\ UNCHANGED <<ps_ip, probes>>
    /\ UNCHANGED <<ps_call, ps_target, ps_scan, doh_requests, ps_done, completion, accepted>>
    /\ UNCHANGED not_ps_vars

\* local_port_check_python called on its own, lines 71-81
CallLocalPortCheck(ip) ==
    /\ ps_pc = "idle"
    /\ ps_call' = "local_port_check_python"
    /\ ps_target' = ip
    /\ StartProbes(ip)
    /\ UNCHANGED <<ps_resolved, ps_scan, ps_result, doh_requests, doh_response, ps_done, completion, accepted>>
    /\ UNCHANGED not_ps_vars

\* the probes finish one after the other in the order of the table and
\* gather returns (lines 79-115); under run_port_scan lines 140-150 follow
ProbesJoin ==
    /\ ps_pc = "scan"
    /\ \E S \in Listening(ps_call) : \E R \in SUBSET (S \cap ResetPorts) :
          /\ accepted' = S
          /\ ps_done' = [port \in Range(common_ports) |-> OutcomeOn(S, R, PortIndex(port))]
    /\ completion' = common_ports
    /\ ScanReturns(gathered(ps_done', completion'))
    /\ UNCHANGED <<ps_call, ps_target, ps_resolved, ps_ip, doh_requests, doh_response, probes>>
    /\ UNCHANGED not_ps_vars

\* lines 54-67: the probe of the i-th port finishes while others are still
\* under way
ProbeDone(i) ==
    /\ ps_pc = "scan"
    /\ common_ports[i] \notin DOMAIN ps_done
    /\ common_ports[i] \notin Overtaking =>
          \A j \in 1..(i - 1) :
              common_ports[j] \notin Overtaking => common_ports[j] \in DOMAIN ps_done
    /\ \E outcome \in ProbeOutcomes(i) :
          ps_done' = ps_done @@ (common_ports[i] :> outcome)
    /\ completion' = Append(completion, common_ports[i])
    /\ UNCHANGED <<ps_call, ps_pc, ps_target, ps_resolved, ps_ip, ps_scan, ps_result,
                   doh_requests, doh_response, probes, accepted>>
    /\ UNCHANGED not_ps_vars

\* lines 79-115: the last probe has finished, gather returns the results
GatherReturn ==
    /\ ps_pc = "scan"
    /\ DOMAIN ps_done = Range(common_ports)
    /\ accepted' = {port \in Range(common_ports) : connect_succeeded(ps_done[port])}
    /\ ScanReturns(gathered(ps_done, completion))
    /\ UNCHANGED <<ps_call, ps_target, ps_resolved, ps_ip, doh_requests, doh_response,
                   probes, ps_done, completion>>
    /\ UNCHANGED not_ps_vars

NextPs ==
    \/ CallResolve
    \/ \E target \in ScanTargets : CallRunPortScan(target)
    \/ \E resp \in ResolveResponses : ResolveReturn(resp)
    \/ CallLocalPortCheck(IP1)
    \/ ProbesJoin

\* ------------------------------------------------------------------------
\* normalizeDomainForDNS called on its own, and then on what it returned
\* ------------------------------------------------------------------------

\* the characters of the arguments
NormAlphabet == {"a", "A", ".", "-", " ", uuml, UUml, IdeographicStop}

\* names with an A-label
ALabelInputs ==
    {<<"x", "n", "-", "-", "t", "d", "a">>, <<"X", "N", "-", "-", "T", "D", "A", ".", "b">>,
     <<"x", "n", "-", "-", "a", "-", "e", "h", "a", ".", "b", ".">>,
     <<"x", "n", "-", "-", "a">>, <<"x", "n", "-", "-">>, <<"x", "n", "-", "-", "t", "d", "a", "-">>}

NormInputs == BoundedSeq(NormAlphabet, MaxNormLen) \cup ALabelInputs

\* lines 20-46, first call
CallNormalize ==
    /\ nz_pc = "idle"
    /\ \E d \in NormInputs :
          /\ nz_domain' = d
          /\ nz_result' = normalizeDomainForDNS(d)
    /\ nz_pc' = "returned"
    /\ nz_again' = nz_again
    /\ UNCHANGED not_nz_vars

\* lines 20-46, called on the string the first call returned
CallNormalizeAgain ==
    /\ nz_pc = "returned"
    /\ nz_result # None
    /\ nz_again' = normalizeDomainForDNS(nz_result)
    /\ nz_pc' = "again"
    /\ UNCHANGED <<nz_domain, nz_result>>
    /\ UNCHANGED not_nz_vars

NextNz ==
    \/ CallNormalize
    \/ CallNormalizeAgain

\* ------------------------------------------------------------------------
\* get_dns_records called on its own
\* ------------------------------------------------------------------------

\* the Answer lists of the direct call: those of DohAnswers, and each of them
\* with an entry without "data" after it or before it
RecordAnswers(q_type) ==
    DohAnswers(q_type)
    \cup {a \o <<BadEntry>> : a \in DohAnswers(q_type)}
    \cup {<<BadEntry>> \o a : a \in DohAnswers(q_type)}

RecordResponses(q_type) ==
    DohResponses(q_type) \cup {[kind |-> "ok", answer |-> a] : a \in RecordAnswers(q_type)}

\* lines 52-66: the records dict is created and the first query sent
CallGetDnsRecords ==
    /\ gr_pc = "idle"
    /\ gr_records' = EmptyRecords
    /\ gr_q_idx' = 1
    /\ gr_queried' = <<query_types[1]>>
    /\ gr_failed' = {}
    /\ gr_pc' = "query"
    /\ UNCHANGED not_gr_vars

\* lines 60-91: the response to the query of query_types[gr_q_idx] arrives;
\* the next query is sent, or the records are returned
GetDnsRecordsQuery ==
    /\ gr_pc = "query"
    /\ \E resp \in RecordResponses(query_types[gr_q_idx]) :
          /\ gr_records' = dns_query_step(gr_records, query_types[gr_q_idx], resp)
          /\ gr_failed' = IF dns_query_raises(query_types[gr_q_idx], resp)
                          THEN gr_failed \cup {query_types[gr_q_idx]}
                          ELSE gr_failed
    /\ IF gr_q_idx < Len(query_types)
       THEN /\ gr_q_idx' = gr_q_idx + 1
            /\ gr_queried' = Append(gr_queried, query_types[gr_q_idx + 1])
            /\ gr_pc' = gr_pc
       ELSE /\ gr_q_idx' = gr_q_idx
            /\ gr_queried' = gr_queried
            /\ gr_pc' = "returned"
    /\ UNCHANGED not_gr_vars

NextGr ==
    \/ CallGetDnsRecords
    \/ GetDnsRecordsQuery

\* ------------------------------------------------------------------------
\* discover_subdomains_crtsh called on its own
\* ------------------------------------------------------------------------

\* the root domains of the direct call
CrtshDomains == {DomAB, <<"s", ".">> \o DomAB}

\* names as certificates carry them: plain, in upper case, the root, a
\* name that only ends like the root, wildcards, and names with a "*"
\* that is not a leading label
CrtshNameInputs ==
    {<<"w", ".">> \o DomAB,
     <<"X", ".">> \o DomAB,
     <<"W", ".", "A", ".", "B">>,
     DomAB,
     <<"x">> \o DomAB,
     <<"*", ".">> \o DomAB,
     <<"*", ".", "s", ".">> \o DomAB,
     <<" ", "*", ".", "S", ".">> \o DomAB \o <<" ">>,
     <<"f", "*", ".">> \o DomAB,
     <<"*", ".", "x", "*", ".">> \o DomAB}

\* the certificates of an answer: a common_name, a name_value of two
\* lines, both, or a common_name that is null
CrtshCertInputs ==
    {[common_name |-> n] : n \in CrtshNameInputs \cup {None}}
    \cup {[name_value |-> n \o <<"\n">> \o m] : n, m \in CrtshNameInputs}
    \cup {[common_name |-> n, name_value |-> m] : n, m \in CrtshNameInputs}

\* what crt.sh may answer to the direct call
CrtshAnswers ==
    CrtshResponses
    \cup {[kind |-> "ok", certs |-> <<c>>] : c \in CrtshCertInputs}
    \cup {[kind |-> "ok", certs |-> <<[common_name |-> n], CertNames>>] : n \in CrtshNameInputs}

\* lines 97-104: the set is created and the request sent
CallDiscoverSubdomains ==
    /\ cs_pc = "idle"
    /\ \E d \in CrtshDomains : cs_domain' = d
    /\ cs_pc' = "request"
    /\ UNCHANGED <<cs_response, cs_subdomains>>
    /\ UNCHANGED not_cs_vars

\* lines 105-133: the answer arrives, the loop over the certificates runs
\* and the list of the set is returned
DiscoverSubdomainsReturn ==
    /\ cs_pc = "request"
    /\ \E resp \in CrtshAnswers :
          /\ cs_response' = resp
          /\ cs_subdomains' = discover_subdomains_crtsh(cs_domain, resp)
    /\ cs_pc' = "returned"
    /\ cs_domain' = cs_domain
    /\ UNCHANGED not_cs_vars

NextCs ==
    \/ CallDiscoverSubdomains
    \/ DiscoverSubdomainsReturn

\* ------------------------------------------------------------------------
\* app/spiderfoot_scraper.py: scan_and_scrape_emails and its helpers
\* ------------------------------------------------------------------------

\* raise HTTPException(status_code=500, detail=...)
HTTPException(detail) == [type |-> "HTTPException", status_code |-> 500, detail |-> detail]

\* an exception no handler of the module catches
Uncaught(type) == [type |-> type, status_code |-> 0, detail |-> ""]

\* the except clauses of lines 61, 89 and 114: a RequestException, which
\* the error of raise_for_status is, becomes an HTTPException.  What
\* response.json() raises on a body that is no JSON is a RequestException
\* in some releases of requests and a plain ValueError in others; a body of
\* another shape than expected raises AttributeError at .get
spiderfoot_errors(kind) ==
    CASE kind \in {"request_error", "status_error"} ->
            {HTTPException("Error communicating with SpiderFoot")}
      [] kind = "json_error" ->
            {HTTPException("Error communicating with SpiderFoot"), Uncaught("JSONDecodeError")}
      [] kind = "malformed" -> {Uncaught("AttributeError")}

\* "if scan_status not in [...]" read as "the scan did not fail"
scan_complete_unless_failed(scan_status) == scan_status # "FAILED"

\* line 133: "if scan_status not in ['COMPLETE']" is false
scan_complete(scan_status) == scan_status \in {"COMPLETE"}

\* line 82: status in ["COMPLETE", "ABORTED", "FAILED"]
final_status(status) == status \in {"COMPLETE", "ABORTED", "FAILED"}

\* the e-mail addresses of the model, in the order sorted() gives them
EmailValues == <<<<"a", "@", "x">>, <<"b", "@", "x">>>>

\* lines 109-110: the values that are truthy, without duplicates, sorted
unique_emails(results) ==
    SelectSeq(EmailValues,
              LAMBDA e : \E i \in 1..Len(results) :
                            "value" \in DOMAIN results[i] /\ results[i].value = e)

\* the target_domain of the request
ScanTargetInputs == {DomAB, <<>>}

\* what SpiderFoot may answer to the start request: an error, or a body
\* with a scanId, with an empty one, or without one
StartResponses ==
    {[kind |-> k, scanId |-> None] : k \in {"request_error", "status_error", "json_error", "malformed"}}
    \cup {[kind |-> "ok", scanId |-> i] : i \in {<<"s", "1">>, <<"s", "2">>, <<>>, None}}

\* what it may answer to a status request
StatusResponses ==
    {[kind |-> k, status |-> NoStatus] : k \in {"request_error", "status_error", "json_error", "malformed"}}
    \cup {[kind |-> "ok", status |-> st] :
              st \in {"COMPLETE", "ABORTED", "FAILED", "RUNNING", "complete", NoStatus}}

\* the elements of a result list: with an address, with an empty value,
\* without value
ResultElements ==
    {[value |-> EmailValues[i]] : i \in 1..Len(EmailValues)}
    \cup {[value |-> <<>>], [type |-> "EMAILADDRESS"]}

\* what it may answer to the result request
ResultResponses ==
    {[kind |-> k, results |-> <<>>] : k \in {"request_error", "status_error", "json_error", "malformed"}}
    \cup {[kind |-> "ok", results |-> r] : r \in BoundedSeq(ResultElements, 2)}

\* lines 127 and 32-50: the endpoint is called and start_new_scan sends
\* the start request
ScanAndScrapeEmails(target) ==
    /\ sf_pc = "idle"
    /\ sf_target' = target
    /\ sf_requests' = Append(sf_requests, "start")
    /\ sf_pc' = "start"
    /\ UNCHANGED <<sf_scan_id, sf_statuses, sf_scan_status, sf_polls, sf_error, sf_body>>
    /\ UNCHANGED not_sf_vars

\* lines 51-63, 128-129 and 70-78: the start request is answered;
\* start_new_scan returns the scan id or None, or raises; without a scan id
\* the endpoint raises, with one check_scan_status sends its first status
\* request
StartReturn(resp) ==
    /\ sf_pc = "start"
    /\ IF resp.kind # "ok"
       THEN /\ \E e \in spiderfoot_errors(resp.kind) : sf_error' = e
            /\ sf_pc' = "raised"
            /\ UNCHANGED <<sf_scan_id, sf_requests>>
       ELSE IF ~Truthy(resp.scanId)
       THEN /\ sf_error' = HTTPException("Failed to initiate a new scan.")
            /\ sf_pc' = "raised"
            /\ UNCHANGED <<sf_scan_id, sf_requests>>
       ELSE /\ sf_scan_id' = resp.scanId
            /\ sf_requests' = Append(sf_requests, "status")
            /\ sf_pc' = "poll"
            /\ sf_error' = sf_error
    /\ UNCHANGED <<sf_target, sf_statuses, sf_scan_status, sf_polls, sf_body>>
    /\ UNCHANGED not_sf_vars

\* lines 79-91, 132-134 and 98-105: a status request is answered; on a
\* final status check_scan_status returns it, and the endpoint raises or,
\* for COMPLETE, get_scan_results sends the result request; on any other
\* status check_scan_status goes to sleep
StatusReturn(resp) ==
    /\ sf_pc = "poll"
    /\ IF resp.kind # "ok"
       THEN /\ \E e \in spiderfoot_errors(resp.kind) : sf_error' = e
            /\ sf_pc' = "raised"
            /\ UNCHANGED <<sf_statuses, sf_scan_status, sf_requests, sf_polls>>
       ELSE /\ sf_statuses' = Append(sf_statuses, resp.status)
            /\ IF final_status(resp.status)
               THEN /\ sf_scan_status' = resp.status
                    /\ sf_polls' = sf_polls
                    /\ IF scan_complete(resp.status)
                       THEN /\ sf_requests' = Append(sf_requests, "results")
                            /\ sf_pc' = "results"
                            /\ sf_error' = sf_error
                       ELSE /\ sf_error' = HTTPException("Scan ended with status")
                            /\ sf_pc' = "raised"
                            /\ sf_requests' = sf_requests
               ELSE /\ sf_polls < MaxPolls
                    /\ sf_polls' = sf_polls + 1
                    /\ sf_pc' = "sleep"
                    /\ UNCHANGED <<sf_scan_status, sf_requests, sf_error>>
    /\ UNCHANGED <<sf_target, sf_scan_id, sf_body>>
    /\ UNCHANGED not_sf_vars

\* lines 87 and 77-78: the sleep is over and the next status request sent
SleepOver ==
    /\ sf_pc = "sleep"
    /\ sf_requests' = Append(sf_requests, "status")
    /\ sf_pc' = "poll"
    /\ UNCHANGED <<sf_target, sf_scan_id, sf_statuses, sf_scan_status, sf_polls, sf_error, sf_body>>
    /\ UNCHANGED not_sf_vars

\* lines 106-116 and 137-146: the result request is answered and the
\* endpoint returns the addresses
ResultsReturn(resp) ==
    /\ sf_pc = "results"
    /\ IF resp.kind # "ok"
       THEN /\ \E e \in spiderfoot_errors(resp.kind) : sf_error' = e
            /\ sf_pc' = "raised"
            /\ sf_body' = sf_body
       ELSE /\ sf_body' = [status |-> "success", scan_id |-> sf_scan_id,
                           emails_found |-> unique_emails(resp.results),
                           total_emails |-> Len(unique_emails(resp.results))]
            /\ sf_pc' = "returned"
            /\ sf_error' = sf_error
    /\ UNCHANGED <<sf_target, sf_scan_id, sf_statuses, sf_scan_status, sf_requests, sf_polls>>
    /\ UNCHANGED not_sf_vars

NextSf ==
    \/ \E target \in ScanTargetInputs : ScanAndScrapeEmails(target)
    \/ \E resp \in StartResponses : StartReturn(resp)
    \/ \E resp \in StatusResponses : StatusReturn(resp)
    \/ SleepOver
    \/ \E resp \in ResultResponses : ResultsReturn(resp)

\* ------------------------------------------------------------------------
\* Specifications
\* ------------------------------------------------------------------------

vars == <<dns_vars, suspended, ps_vars, nz_vars, gr_vars, cs_vars, sf_vars>>

\* one run of run_dns_enum
Init == InitDns /\ suspended = Frame /\ InitPs /\ InitNz /\ InitGr /\ InitCs /\ InitSf

Next == NextDns

Spec == Init /\ [][Next]_vars

\* one call of a function of port_scanner.py
NextScan == NextPs

SpecScan == Init /\ [][NextScan]_vars

\* local_port_check_python with its probes followed one by one
NextGather ==
    \/ CallLocalPortCheck(IP1)
    \/ \E i \in 1..Len(common_ports) : ProbeDone(i)
    \/ GatherReturn

SpecGather == Init /\ [][NextGather]_vars

\* calls of normalizeDomainForDNS
NextNorm == NextNz

\* calls of get_dns_records
NextRecords == NextGr

SpecRecords == Init /\ [][NextRecords]_vars

\* two invocations of run_dns_enum interleaved at their suspension points
NextPair ==
    \/ \E d \in RootInputs : RunDnsEnum(d) /\ PairUpstream'
    \/ DohQuery /\ PairUpstream'
    \/ LoopA /\ PairUpstream'
    \/ \E outcome \in ReverseOutcomes : ReverseA(outcome) /\ PairUpstream'
    \/ LoopAAAA /\ PairUpstream'
    \/ LoopMX /\ PairUpstream'
    \/ LoopNS /\ PairUpstream'
    \/ TxtRecords /\ PairUpstream'
    \/ LoopCNAME /\ PairUpstream'
    \/ \E resp \in CrtshResponses : CrtshReturn(resp) /\ PairUpstream'
    \/ LoopSub /\ PairUpstream'
    \/ Switch

SpecPair == Init /\ [][NextPair]_vars

SpecNorm == Init /\ [][NextNorm]_vars

\* calls of discover_subdomains_crtsh
NextCrtsh == NextCs

SpecCrtsh == Init /\ [][NextCrtsh]_vars

\* one request to scan_and_scrape_emails
NextSpiderfoot == NextSf

SpecSpiderfoot == Init /\ [][NextSpiderfoot]_vars

\* ------------------------------------------------------------------------
\* Properties of run_dns_enum (under Spec)
\* ------------------------------------------------------------------------

\* the run has been started
Started == pc # "idle"

\* the run has ended, by a return or by an exception
Ended == pc \in {"done", "raised"}

\* the Domain Normalizer accepts the root domain
ValidRoot == Started /\ Truthy(normalizeDomainForDNS(domain))

\* C1: within one run no two entries of the node list have the same value; an
\* add_node call whose normalized value is already in the value->id map
\* returns the existing id and appends no node, so an address seen twice
\* has exactly one ip_v4 node
C1_DedupByValue ==
    /\ \A i, j \in 1..Len(nodes) : nodes[i].value = nodes[j].value => i = j
    /\ \A k \in 1..Len(last_adds) :
          /\ last_adds[k].known => last_adds[k].id = last_adds[k].prior /\ last_adds[k].grew = 0
          /\ \E i \in 1..Len(nodes) :
                nodes[i].value = last_adds[k].value /\ nodes[i].id = last_adds[k].id

\* C1 witness: an address that already has its ip_v4 node is added again
C1_Witness ==
    \E k \in 1..Len(last_adds) :
       /\ last_adds[k].known
       /\ last_adds[k].type = "ip_v4"
       /\ Cardinality({i \in 1..Len(nodes) : nodes[i].value = last_adds[k].value}) = 1
       /\ Len(links) >= 2

\* the charitable setting of C2 and C3: a root the normalizer accepts, no
\* certificate-transparency name, no PTR answer that adds a node
QuietUpstream ==
    /\ ValidRoot
    /\ crtsh_subdomains = {}
    /\ main_dns_records.AAAA = <<>>
    /\ main_dns_records.MX = <<>>
    /\ main_dns_records.NS = <<>>
    /\ main_dns_records.TXT = <<>>
    /\ main_dns_records.CNAME = <<>>
    /\ \A i \in 1..Len(links) : links[i].type # "PTR_record"

\* C2: with exactly one A record for the root, no other record and no
\* certificate-transparency subdomain, the run returns exactly 2 nodes (root
\* and one ip_v4 node) and exactly 1 edge (A_record from root to the address)
C2_OneARecordGraph ==
    (Ended /\ QuietUpstream /\ Len(main_dns_records.A) = 1)
    => /\ pc = "done"
       /\ Len(result.nodes) = 2
       /\ result.nodes[1].type = "domain"
       /\ result.nodes[2].type = "ip_v4"
       /\ result.links = <<Link(0, 1, "A_record")>>

\* C3: with no record of any type and no certificate-transparency name the
\* run succeeds and returns just the root node and no edge
C3_RootOnlyGraph ==
    (Ended /\ QuietUpstream /\ main_dns_records.A = <<>>)
    => /\ pc = "done"
       /\ Len(result.nodes) = 1
       /\ result.nodes[1].value = domain
       /\ result.links = <<>>

\* C4: a root domain the Domain Normalizer rejects ends the run at once: no
\* root node is created and no external lookup is issued
C4_InvalidRootFailsFast ==
    (Started /\ normalizeDomainForDNS(domain) = None)
    => /\ nodes = <<>>
       /\ issued = <<>>

\* C5: for a valid root domain no answer or failure of the external lookups
\* makes run_dns_enum propagate an error
C5_NeverRaises ==
    ValidRoot => error = "" /\ pc # "raised"

\* the fields of a node that add_node sets
Core(node) == [id |-> node.id, type |-> node.type, value |-> node.value, label |-> node.label]

\* C6: the node at position i has id i - 1, the root domain node has id 0,
\* the next id to assign is the number of nodes, the value->id map names the
\* node of each value, and an id assigned to a value never changes
C6_SequentialStableIds ==
    /\ [](/\ \A i \in 1..Len(nodes) : nodes[i].id = i - 1
          /\ next_node_id = Len(nodes)
          /\ DOMAIN node_map = {nodes[i].value : i \in 1..Len(nodes)}
          /\ \A i \in 1..Len(nodes) : node_map[nodes[i].value] = nodes[i].id
          /\ Started => /\ main_domain_id = 0
                        /\ nodes[1].id = 0
                        /\ nodes[1].type = "domain"
                        /\ nodes[1].value = domain)
    /\ [][\A v \in DOMAIN node_map : v \in DOMAIN node_map' /\ node_map'[v] = node_map[v]]_vars

\* C6 witness: several values have been observed since the root
C6_Witness ==
    /\ Len(nodes) >= 4
    /\ nodes[4].id = 3
    /\ next_node_id = 4

\* C7: first write wins: no step changes the id, type, value or label of a
\* node that exists, whatever type its value is observed under later
C7_FirstWriteWins ==
    [][/\ Len(nodes') >= Len(nodes)
       /\ \A i \in 1..Len(nodes) : Core(nodes'[i]) = Core(nodes[i])]_vars

\* C7 witness: add_node was called for a value that has a node of another
\* type, here a host first seen as PTR domain and then as mail server
C7_Witness ==
    \E k \in 1..Len(last_adds) :
       /\ last_adds[k].known
       /\ last_adds[k].type = "mail_server"
       /\ nodes[last_adds[k].prior + 1].type = "domain"
       /\ nodes[last_adds[k].prior + 1].value = last_adds[k].value

\* C11: reverse-lookup short-circuit.  When the reverse lookup of an address
\* returns nothing, or a hostname equal, ignoring case, to the name whose
\* resolution gave the address, the step adds no node and no edge; when it
\* returns another hostname the step adds exactly one edge, a PTR_record
\* from the node of the address to the node of that hostname, and at most
\* the node of that hostname
C11_ReverseShortCircuit ==
    [][pc = "reverse_A" =>
         IF hostname' = None \/ hostname' = <<>> \/ Lower(hostname') = Lower(domain)
         THEN nodes' = nodes /\ links' = links
         ELSE /\ Len(links') = Len(links) + 1
              /\ SubSeq(links', 1, Len(links)) = links
              /\ links'[Len(links')].type = "PTR_record"
              /\ nodes'[links'[Len(links')].source + 1].value = cur_ip
              /\ nodes'[links'[Len(links')].target + 1].value = Strip(Lower(hostname'))
              /\ Len(nodes') \in {Len(nodes), Len(nodes) + 1}
              /\ SubSeq(nodes', 1, Len(nodes)) = nodes
              /\ Len(nodes') > Len(nodes) =>
                    /\ nodes'[Len(nodes')].value = Strip(Lower(hostname'))
                    /\ nodes'[Len(nodes')].type = "domain"]_vars

\* C11 witness: two A records; the reverse lookup of the first gave another
\* host and one PTR_record edge, that of the second gave the root in another
\* case and nothing
C11_Witness ==
    /\ pc = "loop_A"
    /\ idx = 3
    /\ domain = DomAB
    /\ hostname = <<"A", ".", "b">>
    /\ Len(nodes) = 4
    /\ Len(links) = 3
    /\ links[2] = Link(1, 2, "PTR_record")
    /\ nodes[3].value = Lower(HostMAB)
    /\ links[3].type = "A_record"

\* the subdomain discovery of lines 262-274 is over
Discovered == pc \in {"loop_sub", "done"} \/ (pc = "raised" /\ discovered_subdomains # {})

\* C12: the discovered subdomains (a set, so without duplicates) never
\* contain the root domain, and each is in normalized form: the Domain
\* Normalizer returns it unchanged
C12_DiscoveredNormalized ==
    Discovered =>
       \A subdomain \in discovered_subdomains :
          /\ subdomain # domain
          /\ normalizeDomainForDNS(subdomain) = subdomain

\* the wordlist candidates of a root that the Domain Normalizer accepts
WordlistCandidates(root) ==
    {c \in {COMMON_SUBDOMAINS[i] \o <<".">> \o root : i \in 1..Len(COMMON_SUBDOMAINS)} :
        normalizeDomainForDNS(c) # None}

\* C13: when the certificate-transparency query fails at any point (request
\* error or timeout, status, body that is no JSON, malformed certificate
\* entry), discover_subdomains_crtsh contributes nothing and the discovered
\* set is exactly the valid wordlist candidates, ftp.<root> among them
C13_CrtshFailureGivesWordlistOnly ==
    (Discovered /\ crtsh_failed)
    => /\ crtsh_subdomains = {}
       /\ discovered_subdomains = WordlistCandidates(domain)
       /\ ValidRoot => (<<"f", "t", "p", ".">> \o domain) \in discovered_subdomains

Count(s, x) == Cardinality({i \in 1..Len(s) : s[i] = x})

\* the subdomain iterations entered so far: each appends one has_subdomain
\* edge before anything else (line 279)
SubIterations == Cardinality({i \in 1..Len(links) : links[i].type = "has_subdomain"})

EdgesOf(type) == SelectSeq(links, LAMBDA l : l.type = type)

\* the hostname of an NS record: the trailing dot stripped, lower-cased
ns_hostname_of(ns_record) == Lower(StripChars(ns_record, {"."}))

\* C23: by the end of a run every MX record of the root has its one
\* MX_record edge, from the root to the mail_server node whose value is the
\* record's hostname without priority and trailing dot and in lower case,
\* and every NS record has its one NS_record edge, from the root to the
\* name_server node of its hostname
C23_MxNsEdges ==
    Ended =>
       /\ Len(EdgesOf("MX_record")) = Len(main_dns_records.MX)
       /\ \A k \in 1..Len(EdgesOf("MX_record")) :
             /\ EdgesOf("MX_record")[k].source = main_domain_id
             /\ nodes[EdgesOf("MX_record")[k].target + 1].value = mx_hostname_of(main_dns_records.MX[k])
       /\ Len(EdgesOf("NS_record")) = Len(main_dns_records.NS)
       /\ \A k \in 1..Len(EdgesOf("NS_record")) :
             /\ EdgesOf("NS_record")[k].source = main_domain_id
             /\ nodes[EdgesOf("NS_record")[k].target + 1].value = ns_hostname_of(main_dns_records.NS[k])

\* origin and target of a CNAME pair as the loop names their nodes
cname_name_of(cname_entry) == Lower(StripChars(cname_entry.name, {"."}))

cname_target_of(cname_entry) == Lower(StripChars(cname_entry.target, {"."}))

\* the CNAME pairs whose origin is the root domain
RootOrigins ==
    {k \in 1..Len(main_dns_records.CNAME) : cname_name_of(main_dns_records.CNAME[k]) = domain}

\* C24: by the end of a run every CNAME pair has its one CNAME_record edge,
\* from the node of the origin to the node of the target; there is one
\* CNAME_alias edge for each pair whose origin is the root domain and none
\* for any other origin, and each is a self-loop on the root node
C24_CnameEdges ==
    Ended =>
       /\ Len(EdgesOf("CNAME_record")) = Len(main_dns_records.CNAME)
       /\ \A k \in 1..Len(EdgesOf("CNAME_record")) :
             /\ nodes[EdgesOf("CNAME_record")[k].source + 1].value =
                    cname_name_of(main_dns_records.CNAME[k])
             /\ nodes[EdgesOf("CNAME_record")[k].target + 1].value =
                    cname_target_of(main_dns_records.CNAME[k])
       /\ Len(EdgesOf("CNAME_alias")) = Cardinality(RootOrigins)
       /\ \A k \in 1..Len(EdgesOf("CNAME_alias")) :
             EdgesOf("CNAME_alias")[k] = Link(main_domain_id, main_domain_id, "CNAME_alias")

\* the run is past the TXT step of lines 233-239 and has not raised
PastTxt == pc \in {"loop_CNAME", "crtsh", "loop_sub", "done"}

\* the node carries the attribute txt_records
HasTxt(node) == "txt_records" \in DOMAIN node

\* C25: TXT records create no node and no edge.  Only the root node ever
\* carries txt_records, and only with the TXT records joined by newline in
\* answer order as its value; once the TXT step is over, and so in the
\* returned graph, the root node carries it exactly when the root has at
\* least one TXT record
C25_TxtOnRootOnly ==
    /\ [](/\ \A i \in 1..Len(nodes) :
                HasTxt(nodes[i]) =>
                   /\ nodes[i].id = main_domain_id
                   /\ nodes[i].value = domain
                   /\ main_dns_records.TXT # <<>>
                   /\ nodes[i].txt_records = Join(main_dns_records.TXT, "\n")
          /\ PastTxt => (HasTxt(nodes[1]) <=> main_dns_records.TXT # <<>>)
          /\ pc = "done" => result.nodes = nodes)
    /\ [][pc = "txt" =>
             /\ Len(nodes') = Len(nodes)
             /\ \A i \in 1..Len(nodes) : Core(nodes'[i]) = Core(nodes[i])
             /\ links' = links
             /\ node_map' = node_map
             /\ next_node_id' = next_node_id]_vars

\* C25 witness: a returned graph of several nodes whose root node carries
\* the two TXT records of the answer, joined by a newline
C25_Witness ==
    /\ pc = "done"
    /\ main_dns_records.TXT = <<<<"t">>, <<"u">>>>
    /\ Len(result.nodes) >= 2
    /\ HasTxt(result.nodes[1])
    /\ result.nodes[1].txt_records = <<"t", "\n", "u">>
    /\ ~HasTxt(result.nodes[2])

\* the ids of the nodes of a node list
NodeIds(ns) == {ns[i].id : i \in 1..Len(ns)}

\* C26: referential integrity.  In every state of a run, and in the
\* returned graph, source and target of every edge are ids of nodes of the
\* node list; an edge is appended only after the nodes it joins, so the
\* edges a step appends name nodes of the list as the step leaves it; and
\* both lists only grow at their end: no step removes or moves an edge or
\* a node
C26_ReferentialIntegrity ==
    /\ [](/\ \A i \in 1..Len(links) :
                links[i].source \in NodeIds(nodes) /\ links[i].target \in NodeIds(nodes)
          /\ pc = "done" =>
                \A i \in 1..Len(result.links) :
                   /\ result.links[i].source \in NodeIds(result.nodes)
                   /\ result.links[i].target \in NodeIds(result.nodes))
    /\ [][/\ Len(links') >= Len(links)
          /\ SubSeq(links', 1, Len(links)) = links
          /\ \A i \in (Len(links) + 1)..Len(links') :
                links'[i].source \in NodeIds(nodes') /\ links'[i].target \in NodeIds(nodes')
          /\ Len(nodes') >= Len(nodes)
          /\ \A i \in 1..Len(nodes) : nodes'[i].id = nodes[i].id /\ nodes'[i].value = nodes[i].value]_vars

\* C26 witness: the latest edge was appended to a node that was in the list
\* before the step (an address seen a second time) while other nodes and
\* edges had been added after that node
C26_Witness ==
    /\ Len(links) >= 3
    /\ Len(nodes) >= 3
    /\ last_adds # <<>>
    /\ last_adds[Len(last_adds)].known
    /\ links[Len(links)].target = last_adds[Len(last_adds)].id
    /\ links[Len(links)].target < Len(nodes) - 1
    /\ links[Len(links) - 1].target > links[Len(links)].target

\* ------------------------------------------------------------------------
\* Properties of discover_subdomains_crtsh (under SpecCrtsh)
\* ------------------------------------------------------------------------

\* C22: every name discover_subdomains_crtsh returns is lower-case, is the
\* root domain or ends with "." and the root domain, and has no "*" in it,
\* the wildcard prefix of an entry having been removed
C22_CrtshNamesFolded ==
    cs_pc = "returned" =>
       \A name \in cs_subdomains :
          /\ name = Lower(name)
          /\ name = cs_domain \/ EndsWith(name, <<".">> \o cs_domain)
          /\ ~Contains(name, <<"*">>)

\* ------------------------------------------------------------------------
\* Properties of port_scanner.py (under SpecScan)
\* ------------------------------------------------------------------------

\* the position of a port in the fixed table
PortPos(port) == CHOOSE i \in 1..Len(common_ports) : common_ports[i] = port

\* the service name and protocol the documentation lists for a port
ListedService(port) ==
    CASE port = 80 -> <<"http", "http">>
      [] port = 443 -> <<"https", "https">>
      [] port = 3306 -> <<"mysql", "tcp">>
      [] port = 8443 -> <<"https-alt", "https">>

\* C8: for every set S of table ports that accept a connect,
\* local_port_check_python returns the port list that is exactly S and one
\* service entry per port of S, in table order, with the table's service
\* name and protocol
C8_ScanReportsExactlyOpenPorts ==
    (ps_call = "local_port_check_python" /\ ps_pc = "returned")
    => LET ports == ps_result.ports
           services == ps_result.services
       IN  /\ Range(ports) = accepted
           /\ Len(ports) = Cardinality(accepted)
           /\ Len(services) = Len(ports)
           /\ \A i \in 1..Len(ports) : services[i].port = ports[i]
           /\ \A i, j \in 1..Len(ports) : i < j => PortPos(ports[i]) < PortPos(ports[j])
           /\ \A i \in 1..Len(services) :
                 /\ services[i].service # "unknown"
                 /\ services[i].port \in {80, 443, 3306, 8443} =>
                       <<services[i].service, services[i].protocol>>
                           = ListedService(services[i].port)

\* dotted-quad syntax: four dot-separated fields of one to three digits
DottedQuad(s) ==
    LET fields == Split(s, ".")
    IN  /\ Len(fields) = 4
        /\ \A i \in 1..4 :
              /\ Len(fields[i]) \in 1..3
              /\ \A k \in 1..Len(fields[i]) : fields[i][k] \in Digits

\* C9: run_port_scan starts TCP probes only once an address is known: a
\* target that is no IPv4 literal and resolves to absent gives status
\* "error" and no probe; any other call gives status "success" with the
\* literal or resolved address and the ports and services of its scan
C9_ProbeOnlyResolved ==
    ps_call = "run_port_scan"
    => /\ ps_pc = "resolve" => probes = {}
       /\ ps_pc = "returned" =>
             IF ~DottedQuad(ps_target) /\ ps_resolved = None
             THEN /\ ps_result.status = "error"
                  /\ probes = {}
             ELSE /\ ps_result.status = "success"
                  /\ ps_result.ip = (IF DottedQuad(ps_target) THEN ps_target ELSE ps_resolved)
                  /\ ps_result.ports = ps_scan.ports
                  /\ ps_result.services = ps_scan.services
                  /\ probes = {<<ps_result.ip, common_ports[i]>> : i \in 1..Len(common_ports)}

\* C10: resolve_domain_to_ip called with a dotted-quad string returns that
\* string and sends no DoH request
C10_LiteralNoDns ==
    (ps_call = "resolve_domain_to_ip" /\ DottedQuad(ps_target))
    => /\ ps_pc = "returned"
       /\ ps_result.value = ps_target
       /\ doh_requests = 0

\* C10 witness: the call with a literal of several digits per field returned
C10_Witness ==
    /\ ps_call = "resolve_domain_to_ip"
    /\ ps_pc = "returned"
    /\ ps_target = <<"1", "2", ".", "1", "2", "3", ".", "1", ".", "1">>
    /\ ps_result.value = ps_target

\* the data of the first Answer entry of a response, None when the request
\* failed, the list is empty or absent, or the entry has no data
FirstAnswer(resp) ==
    IF resp.kind = "ok" /\ Len(resp.answer) > 0 /\ "data" \in DOMAIN resp.answer[1]
    THEN resp.answer[1].data
    ELSE None

\* C17: for an input that is no IPv4 literal resolve_domain_to_ip sends
\* exactly one A query and returns the data of the first Answer entry, or
\* absent when the list is empty or anything failed; it never raises
C17_ResolveOneQueryFirstAnswer ==
    (ps_call = "resolve_domain_to_ip" /\ ~DottedQuad(ps_target))
    => /\ doh_requests = 1
       /\ ps_pc = "returned" =>
             /\ ps_result.status = "returned"
             /\ ps_result.value = FirstAnswer(doh_response)

\* a scan has returned its port list
Scanned == ps_pc = "returned" /\ ps_call \in {"local_port_check_python", "run_port_scan"}
              /\ DOMAIN ps_done = Range(common_ports)

\* C18: a probe reports its port open exactly when its connect succeeded
\* within the timeout and closed for every other outcome, and the report
\* for a port depends on the outcome of its own probe only
C18_OpenIffConnectSucceeded ==
    Scanned => \A port \in Range(common_ports) :
                   (port \in Range(ps_scan.ports))
                       <=> (ps_done[port] \notin Range(ProbeFailures))

\* ------------------------------------------------------------------------
\* Properties of the probes of one scan (under SpecGather)
\* ------------------------------------------------------------------------

\* the ports of a set in the order of the fixed table
InTableOrder(S) ==
    LET in_S(port) == port \in S
    IN  SelectSeq(common_ports, in_S)

\* C19: local_port_check_python starts the 17 probes together, before any
\* of them has finished, returns only after every probe has finished, and
\* the ports and services it returns are given by how each probe ended,
\* whatever the order in which the probes finished
C19_GatherJoinsAllProbes ==
    ps_call = "local_port_check_python"
    => /\ probes = {<<ps_ip, common_ports[i]>> : i \in 1..Len(common_ports)}
       /\ Cardinality(probes) = 17
       /\ ps_pc = "scan" => ps_scan = NoScan
       /\ ps_pc = "returned" =>
             /\ DOMAIN ps_done = Range(common_ports)
             /\ Len(completion) = 17
             /\ ps_scan.ports =
                    InTableOrder({port \in Range(common_ports) : ps_done[port] = "connected"})
             /\ Len(ps_scan.services) = Len(ps_scan.ports)
             /\ \A i \in 1..Len(ps_scan.ports) :
                    ps_scan.services[i] = service_entry(ps_scan.ports[i])

\* C19 witness: the probe of 443 finished first and that of 80 last, both
\* connected, and the scan returned 80 before 443
C19_Witness ==
    /\ ps_call = "local_port_check_python"
    /\ ps_pc = "returned"
    /\ completion[1] = 443
    /\ completion[17] = 80
    /\ ps_scan.ports = <<80, 443>>
    /\ ps_scan.services[1].service = "http"
    /\ ps_scan.services[2].service = "https"

\* ------------------------------------------------------------------------
\* Properties of normalizeDomainForDNS (under SpecNorm)
\* ------------------------------------------------------------------------

\* C14: the Domain Normalizer is idempotent on what it accepts: called on a
\* string it returned, it returns that string
C14_NormalizerIdempotent ==
    nz_pc = "again" => nz_again = nz_result

\* C14 witness: an internationalized name was encoded to an A-label, which
\* differs from the argument, and the second call returned the A-label
C14_Witness ==
    /\ nz_pc = "again"
    /\ nz_domain = <<"A", IdeographicStop, uuml>>
    /\ nz_result = <<"a", ".", "x", "n", "-", "-", "t", "d", "a">>
    /\ nz_again = nz_result

\* ------------------------------------------------------------------------
\* Properties of two interleaved invocations (under SpecPair)
\* ------------------------------------------------------------------------

\* two frames hold the same locals (result is a graph once the invocation
\* has returned, and None before)
SameFrame(f, g) ==
    /\ \A field \in DOMAIN f \ {"result"} : f[field] = g[field]
    /\ f.pc = "done" => f.result = g.result

\* the traversal state of a frame is that of an invocation running alone:
\* the ids are 0, 1, 2, ... in the order of the node list, the counter is
\* the number of nodes, the map sends each value to the id of its node, the
\* root is node 0 and every edge joins two nodes of the list
OwnGraph(f) ==
    /\ f.next_node_id = Len(f.nodes)
    /\ \A i \in 1..Len(f.nodes) :
          /\ f.nodes[i].id = i - 1
          /\ f.nodes[i].value \in DOMAIN f.node_map
          /\ f.node_map[f.nodes[i].value] = i - 1
    /\ DOMAIN f.node_map = {f.nodes[i].value : i \in 1..Len(f.nodes)}
    /\ f.pc # "idle" => f.nodes[1].value = f.domain /\ f.main_domain_id = 0
    /\ \A i \in 1..Len(f.links) :
          /\ f.links[i].source \in 0..(Len(f.nodes) - 1)
          /\ f.links[i].target \in 0..(Len(f.nodes) - 1)
    /\ f.pc = "done" => f.result = [nodes |-> f.nodes, links |-> f.links]

\* C15: the traversal state is owned by one invocation: a step of the running
\* invocation leaves the frame of the suspended one as it is, a resumed
\* invocation finds its node list, edge list, map and counter as it left
\* them, and so each invocation builds and returns a graph whose ids start
\* at 0 as when it runs alone
C15_InvocationOwnsTraversalState ==
    /\ [](OwnGraph(Frame) /\ OwnGraph(suspended))
    /\ [][\/ SameFrame(suspended', suspended)
          \/ SameFrame(Frame', suspended) /\ SameFrame(suspended', Frame)]_vars

\* C15 witness: both invocations have returned; each adds its root, the
\* address and a reverse name while the other is suspended in between, and
\* each graph has the ids 0, 1, 2
C15_Witness ==
    /\ pc = "done"
    /\ suspended.pc = "done"
    /\ Len(result.nodes) = 3
    /\ Len(suspended.result.nodes) = 3
    /\ result.nodes[3].id = 2
    /\ suspended.result.nodes[3].id = 2
    /\ Len(issued) = 9
    /\ Len(suspended.issued) = 9

\* ------------------------------------------------------------------------
\* Properties of get_dns_records (under SpecRecords)
\* ------------------------------------------------------------------------

\* no record of a type: the empty list, None for SOA
NoRecords(recs, q_type) ==
    IF q_type = "SOA" THEN recs.SOA = None ELSE recs[q_type] = <<>>

\* C16: the seven lookups of get_dns_records are independent: a type whose
\* lookup failed at any point has no records in the returned set, every type
\* is queried whatever failed before, and a lookup leaves the records of the
\* other types as they are
C16_LookupsIndependent ==
    /\ [](gr_pc = "returned" =>
             /\ gr_queried = query_types
             /\ \A q_type \in gr_failed : NoRecords(gr_records, q_type))
    /\ [][gr_pc = "query" =>
             \A q_type \in DOMAIN gr_records \ {query_types[gr_q_idx]} :
                 gr_records'[q_type] = gr_records[q_type]]_vars

\* ------------------------------------------------------------------------
\* Properties of scan_and_scrape_emails (under SpecSpiderfoot)
\* ------------------------------------------------------------------------

\* the statuses that end a scan
FinalStatuses == {"COMPLETE", "ABORTED", "FAILED"}

\* the start request has been answered
StartAnswered == sf_pc \notin {"idle", "start"}

\* C27: scan lifecycle ordering.  The requests go out in the order start,
\* status requests, result request; a status request is sent only after the
\* start request gave a scan id; check_scan_status returns only the status
\* it read last, which is COMPLETE, ABORTED or FAILED while none read before
\* it is; the result request is sent only when it returned COMPLETE; and
\* when the start request gives no scan id, or the final status is ABORTED
\* or FAILED, the endpoint ends in an error without a result request
C27_ScanLifecycle ==
    /\ [](/\ \A i \in 1..Len(sf_requests) :
                /\ sf_requests[i] = "start" <=> i = 1
                /\ sf_requests[i] = "results" => i = Len(sf_requests) /\ i > 2
          /\ Count(sf_requests, "status") > 0 => Truthy(sf_scan_id)
          /\ sf_scan_status # NoStatus =>
                /\ sf_scan_status \in FinalStatuses
                /\ sf_statuses # <<>>
                /\ sf_statuses[Len(sf_statuses)] = sf_scan_status
                /\ \A i \in 1..(Len(sf_statuses) - 1) : sf_statuses[i] \notin FinalStatuses
          /\ Count(sf_requests, "results") > 0 => sf_scan_status = "COMPLETE"
          /\ sf_pc = "returned" => Count(sf_requests, "results") = 1
          /\ (StartAnswered /\ ~Truthy(sf_scan_id)) =>
                /\ sf_pc = "raised"
                /\ sf_error # NoError
                /\ sf_requests = <<"start">>
          /\ sf_scan_status \in {"ABORTED", "FAILED"} =>
                /\ sf_pc = "raised"
                /\ sf_error = HTTPException("Scan ended with status")
                /\ Count(sf_requests, "results") = 0)
    /\ [][Len(sf_requests') > Len(sf_requests) =>
             /\ sf_requests' = Append(sf_requests, sf_requests'[Len(sf_requests')])
             /\ sf_requests'[Len(sf_requests')] = "status" =>
                    Truthy(sf_scan_id') /\ sf_scan_status' = NoStatus
             /\ sf_requests'[Len(sf_requests')] = "results" =>
                    sf_scan_status' = "COMPLETE" /\ sf_scan_status = NoStatus]_vars

\* C27 witness: a scan that was started, polled twice and found RUNNING
\* and then COMPLETE, and whose results were fetched and returned
C27_Witness ==
    /\ sf_pc = "returned"
    /\ sf_scan_id = <<"s", "1">>
    /\ sf_statuses = <<"RUNNING", "COMPLETE">>
    /\ sf_requests = <<"start", "status", "status", "results">>
    /\ sf_body.emails_found = EmailValues

====
